---- MODULE Spec2Model ----
(***************************************************************************)
(* A model of the vCard 3.0 validator (package vcard): the escape-aware    *)
(* splitter of vcard_utils.py, the line unfolder, group extractor,         *)
(* property decomposer and file driver of vcard_validator.py and the       *)
(* per-property rules of vcard_validators.py.                              *)
(*                                                                         *)
(* A Python str is a sequence of one-character strings.  Indices returned  *)
(* by the code are kept 0-based, as in Python; a slice text[a:b] is        *)
(* SubSeq(text, a + 1, b).                                                 *)
(***************************************************************************)
EXTENDS Integers, Sequences, FiniteSets, TLC

VARIABLES
    pc,          \* position of the running function
    text,        \* split_unescaped: the local `text` (what is left to split)
    separator,   \* split_unescaped: the separator argument
    result,      \* split_unescaped: the local `result`
    arg_text,    \* split_unescaped: the text the function was called with
    prop_line,     \* get_vcard_property: the argument
    prop_outcome,  \* get_vcard_property: what the call returned or raised
    prop_parts,        \* how prop_line was written: [name, params, value]
    vc_text,           \* VCard.__init__: the argument text
    vc_lines,          \* VCard.__init__: lines
    vc_group,          \* VCard.__init__: self.group
    vc_properties,     \* VCard.__init__: self.properties
    vc_outcome,        \* VCard.__init__: the warnings issued, the error raised
    vc_raised_in,      \* VCard.__init__: the function that raised the error
    vc_base,           \* how vc_text was written: the logical lines of a record
    vc_edit,           \* how vc_text was written: what was done to those lines
    vf_contents,       \* validate_file: contents
    vf_index,          \* validate_file: index
    vf_vcard_text,     \* validate_file: vcard_text
    vf_result,         \* validate_file: result
    vf_calls,          \* validate_file: the calls of validate_vcard_text so far
    vf_file            \* how the file was written: [records, trailer]

splitVars == <<text, separator, result, arg_text>>
propertyVars == <<prop_line, prop_outcome, prop_parts>>
vcardVars == <<vc_text, vc_lines, vc_group, vc_properties, vc_outcome, vc_raised_in,
               vc_base, vc_edit>>
fileVars == <<vf_contents, vf_index, vf_vcard_text, vf_result, vf_calls, vf_file>>
vars == <<pc, splitVars, propertyVars, vcardVars, fileVars>>

-----------------------------------------------------------------------------
(* Characters and Python string primitives                                 *)

BS == "\\"
CR == "\r"
LF == "\n"

\* Optional[int]: None is kept apart from every index (indices are >= 0)
None == -1

Slice(s, a, b) == SubSeq(s, a + 1, b)        \* s[a:b], 0 <= a
SliceFrom(s, a) == SubSeq(s, a + 1, Len(s))  \* s[a:]
SliceTo(s, b) == SubSeq(s, 1, b)             \* s[:b], b >= 0

RECURSIVE Join(_, _)
\* sep.join(parts)
Join(parts, sep) ==
    IF Len(parts) = 0 THEN <<>>
    ELSE IF Len(parts) = 1 THEN parts[1]
    ELSE parts[1] \o sep \o Join(Tail(parts), sep)

-----------------------------------------------------------------------------
(* vcard_definitions.py: the character classes                              *)

DOUBLE_QUOTE_CHARACTER == "\""
SPACE_CHARACTER == " "
TAB == "\t"
SPACE_CHARACTERS == {SPACE_CHARACTER, TAB}
NEWLINE_CHARACTERS == <<CR, LF>>

\* the characters 0x80..0xff, written "x80".."xff"
NON_ASCII_CHARACTERS ==
    { "x80", "x81", "x82", "x83", "x84", "x85", "x86", "x87", "x88", "x89", "x8a", "x8b",
      "x8c", "x8d", "x8e", "x8f", "x90", "x91", "x92", "x93", "x94", "x95", "x96", "x97",
      "x98", "x99", "x9a", "x9b", "x9c", "x9d", "x9e", "x9f", "xa0", "xa1", "xa2", "xa3",
      "xa4", "xa5", "xa6", "xa7", "xa8", "xa9", "xaa", "xab", "xac", "xad", "xae", "xaf",
      "xb0", "xb1", "xb2", "xb3", "xb4", "xb5", "xb6", "xb7", "xb8", "xb9", "xba", "xbb",
      "xbc", "xbd", "xbe", "xbf", "xc0", "xc1", "xc2", "xc3", "xc4", "xc5", "xc6", "xc7",
      "xc8", "xc9", "xca", "xcb", "xcc", "xcd", "xce", "xcf", "xd0", "xd1", "xd2", "xd3",
      "xd4", "xd5", "xd6", "xd7", "xd8", "xd9", "xda", "xdb", "xdc", "xdd", "xde", "xdf",
      "xe0", "xe1", "xe2", "xe3", "xe4", "xe5", "xe6", "xe7", "xe8", "xe9", "xea", "xeb",
      "xec", "xed", "xee", "xef", "xf0", "xf1", "xf2", "xf3", "xf4", "xf5", "xf6", "xf7",
      "xf8", "xf9", "xfa", "xfb", "xfc", "xfd", "xfe", "xff" }

digits == { "0", "1", "2", "3", "4", "5", "6", "7", "8", "9" }
ascii_lowercase == <<"a","b","c","d","e","f","g","h","i","j","k","l","m","n","o","p","q","r","s","t","u","v","w","x","y","z">>
ascii_uppercase == <<"A","B","C","D","E","F","G","H","I","J","K","L","M","N","O","P","Q","R","S","T","U","V","W","X","Y","Z">>
ascii_letters == { ascii_lowercase[i] : i \in 1..26 } \cup { ascii_uppercase[i] : i \in 1..26 }

\* the backquote, 0x60, is written "x60"
SAFE_PUNCTUATION_CHARACTERS ==
    { "!", "#", "$", "%", "&", "'", "(", ")", "*", "+", "-", ".", "/", "<", "=", ">",
      "?", "@", "[", "]", "^", "_", "x60", "{", "|", "}", "~" }
SAFE_CHARACTERS ==
    SPACE_CHARACTERS \cup SAFE_PUNCTUATION_CHARACTERS \cup digits \cup ascii_letters
        \cup NON_ASCII_CHARACTERS
QUOTE_SAFE_CHARACTERS == SAFE_CHARACTERS \cup {",", ":", ";"}
\* the class [REGEX_VALUE_CHARACTERS]
VALUE_CHARACTERS == QUOTE_SAFE_CHARACTERS \cup {BS, DOUBLE_QUOTE_CHARACTER}
\* the class [REGEX_ESCAPED_CHARACTERS]
ESCAPED_CHARACTERS == {BS, ";", ",", "n", "N"}
ID_CHARACTERS == ascii_letters \cup digits \cup {"-"}

MANDATORY_PROPERTIES == <<<<"B","E","G","I","N">>, <<"E","N","D">>, <<"F","N">>, <<"N">>, <<"V","E","R","S","I","O","N">>>>
PREDEFINED_PROPERTIES == {<<"B","E","G","I","N">>, <<"E","N","D">>, <<"N","A","M","E">>, <<"P","R","O","F","I","L","E">>, <<"S","O","U","R","C","E">>}
OTHER_PROPERTIES ==
    { <<"A","D","R">>,
      <<"A","G","E","N","T">>,
      <<"B","D","A","Y">>,
      <<"C","A","T","E","G","O","R","I","E","S">>,
      <<"C","L","A","S","S">>,
      <<"E","M","A","I","L">>,
      <<"G","E","O">>,
      <<"K","E","Y">>,
      <<"L","A","B","E","L">>,
      <<"L","O","G","O">>,
      <<"M","A","I","L","E","R">>,
      <<"N","I","C","K","N","A","M","E">>,
      <<"N","O","T","E">>,
      <<"O","R","G">>,
      <<"P","H","O","T","O">>,
      <<"P","R","O","D","I","D">>,
      <<"R","E","V">>,
      <<"R","O","L","E">>,
      <<"S","O","R","T","-","S","T","R","I","N","G">>,
      <<"S","O","U","N","D">>,
      <<"T","E","L">>,
      <<"T","I","T","L","E">>,
      <<"T","Z">>,
      <<"U","I","D">>,
      <<"U","R","L">> }
ALL_PROPERTIES ==
    { MANDATORY_PROPERTIES[i] : i \in 1..Len(MANDATORY_PROPERTIES) }
        \cup PREDEFINED_PROPERTIES \cup OTHER_PROPERTIES

VCARD_LINE_MAX_LENGTH == 75
VCARD_LINE_MAX_LENGTH_RAW == VCARD_LINE_MAX_LENGTH + Len(NEWLINE_CHARACTERS)

-----------------------------------------------------------------------------
(* Python str methods and the regex idioms the package uses                *)

LetterIndex(letters, c) == CHOOSE i \in 1..26 : letters[i] = c

\* str.upper and str.lower, one character (the ASCII letters; every other
\* character of the model's texts is left alone)
upper_char(c) ==
    IF \E i \in 1..26 : ascii_lowercase[i] = c
    THEN ascii_uppercase[LetterIndex(ascii_lowercase, c)] ELSE c
lower_char(c) ==
    IF \E i \in 1..26 : ascii_uppercase[i] = c
    THEN ascii_lowercase[LetterIndex(ascii_uppercase, c)] ELSE c
upper(s) == [i \in 1..Len(s) |-> upper_char(s[i])]
lower(s) == [i \in 1..Len(s) |-> lower_char(s[i])]

startswith(s, prefix) ==
    Len(s) >= Len(prefix) /\ SubSeq(s, 1, Len(prefix)) = prefix
endswith(s, suffix) ==
    Len(s) >= Len(suffix) /\ SubSeq(s, Len(s) - Len(suffix) + 1, Len(s)) = suffix

\* ^[class]*$ and ^[class]+$ : the $ also matches before a final "\n"
AllIn(s, class) == \A i \in 1..Len(s) : s[i] \in class
MatchStar(s, class) ==
    \/ AllIn(s, class)
    \/ Len(s) >= 1 /\ s[Len(s)] = LF /\ AllIn(SliceTo(s, Len(s) - 1), class)
MatchPlus(s, class) ==
    \/ Len(s) >= 1 /\ AllIn(s, class)
    \/ Len(s) >= 2 /\ s[Len(s)] = LF /\ AllIn(SliceTo(s, Len(s) - 1), class)

-----------------------------------------------------------------------------
(* vcard_utils.py                                                          *)

RECURSIVE BackslashPairs(_, _)
\* how many times (?:\\\\) can be matched starting at position p (1-based)
BackslashPairs(s, p) ==
    IF p + 1 <= Len(s) /\ s[p] = BS /\ s[p + 1] = BS
    THEN 1 + BackslashPairs(s, p + 2)
    ELSE 0

\* The k for which the regex (?<!\\)(?:\\\\)*(char) matches when the match
\* starts at position p (1-based): the lookbehind holds at p, k pairs of
\* backslashes follow and then char.  The star is greedy: the largest k.
PairsMatched(s, p, char) ==
    IF p > 1 /\ s[p - 1] = BS THEN {}
    ELSE { k \in 0..BackslashPairs(s, p) : p + 2 * k <= Len(s) /\ s[p + 2 * k] = char }

Max(S) == CHOOSE m \in S : \A n \in S : n <= m
Min(S) == CHOOSE m \in S : \A n \in S : m <= n

\* find_unescaped with the pairs of backslashes left out of the regex,
\* (?<!\\)(char): every char after a backslash counts as escaped
find_unescaped_no_pairs(s, char) ==
    LET hits == { i \in 1..Len(s) : s[i] = char /\ (i = 1 \/ s[i - 1] # BS) }
    IN  IF hits = {} THEN None ELSE Min(hits) - 1

\* find_unescaped returning start() of the whole match instead of start(1)
find_unescaped_start0(s, char) ==
    LET starts == { p \in 1..Len(s) : PairsMatched(s, p, char) # {} }
    IN  IF starts = {} THEN None ELSE Min(starts) - 1

\* regex.search: the leftmost start position that matches; start(1) is the
\* 0-based index of the group, the matched char.
find_unescaped(s, char) ==
    LET starts == { p \in 1..Len(s) : PairsMatched(s, p, char) # {} }
    IN  IF starts = {} THEN None
        ELSE LET p == Min(starts)
             IN  (p + 2 * Max(PairsMatched(s, p, char))) - 1

RECURSIVE split_unescaped(_, _)
\* the while loop of split_unescaped, as one function
split_unescaped(s, sep) ==
    LET index == find_unescaped(s, sep)
    IN  IF index # None
        THEN <<SliceTo(s, index)>> \o split_unescaped(SliceFrom(s, index + 1), sep)
        ELSE <<s>>

-----------------------------------------------------------------------------
(* Errors, warnings and the outcome of a call                              *)

\* The context dictionary of an error: every key holds no value or one.
EmptyContext ==
    [File |-> {}, FileLine |-> {}, vCardLine |-> {}, Property |-> {},
     PropertyLine |-> {}, String |-> {}]

\* The exception classes of vcard_errors; VCardError is the base class that
\* `except VCardError` catches.
VCardErrorKinds ==
    {"VCardError", "VCardLineError", "VCardNameError", "VCardItemCountError",
     "VCardValueError"}

NoError == [kind |-> "", note |-> "", context |-> EmptyContext]
NoValue == <<>>

\* A call returns a value or raises an error; either way it may have
\* emitted warnings (warnings.warn) on the way.
Returns(v) == [raised |-> FALSE, error |-> NoError, warnings |-> <<>>, value |-> v]
Warns(w) == [raised |-> FALSE, error |-> NoError, warnings |-> <<w>>, value |-> NoValue]
Raises(kind, note, context) ==
    [raised |-> TRUE, error |-> [kind |-> kind, note |-> note, context |-> context],
     warnings |-> <<>>, value |-> NoValue]
Passes == Returns(NoValue)

\* statement a; statement b
Then(a, b) == IF a.raised THEN a ELSE [b EXCEPT !.warnings = a.warnings \o @]
\* the outcome a, returning v when a did not raise
Returning(a, v) == IF a.raised THEN a ELSE [a EXCEPT !.value = v]

-----------------------------------------------------------------------------
(* vcard_validators.py: expectations and value validators                  *)

LABEL_TYPE_VALUES ==
    { <<"d","o","m">>, <<"i","n","t","l">>, <<"p","o","s","t","a","l">>,
      <<"p","a","r","c","e","l">>, <<"h","o","m","e">>, <<"w","o","r","k">>,
      <<"p","r","e","f">> }
TELEPHONE_TYPE_VALUES ==
    { <<"h","o","m","e">>, <<"m","s","g">>, <<"w","o","r","k">>, <<"p","r","e","f">>,
      <<"v","o","i","c","e">>, <<"f","a","x">>, <<"c","e","l","l">>,
      <<"v","i","d","e","o">>, <<"p","a","g","e","r">>, <<"b","b","s">>,
      <<"m","o","d","e","m">>, <<"c","a","r">>, <<"i","s","d","n">>, <<"p","c","s">> }
EMAIL_TYPE_VALUES ==
    { <<"i","n","t","e","r","n","e","t">>, <<"x","4","0","0">>, <<"p","r","e","f">>,
      <<"d","o","m">>, <<"i","n","t","l">>, <<"p","o","s","t","a","l">>,
      <<"p","a","r","c","e","l">>, <<"h","o","m","e">>, <<"w","o","r","k">> }

_expect_no_parameters(property_) ==
    IF Len(property_.parameters) # 0
    THEN Raises("VCardItemCountError", "NOTE_NON_EMPTY_PARAMETER", EmptyContext)
    ELSE Passes

_expect_parameters(property_) ==
    IF Len(property_.parameters) = 0
    THEN Raises("VCardItemCountError", "NOTE_MISSING_PARAMETER", EmptyContext)
    ELSE Passes

_expect_value_count(values, count) ==
    IF Len(values) # count
    THEN Raises("VCardItemCountError", "NOTE_INVALID_VALUE_COUNT", EmptyContext)
    ELSE Passes

_expect_sub_value_count(sub_values, count) ==
    IF Len(sub_values) # count
    THEN Raises("VCardItemCountError", "NOTE_INVALID_SUB_VALUE_COUNT", EmptyContext)
    ELSE Passes

_expect_parameter_values(param_values, expected_param_values) ==
    IF param_values # expected_param_values
    THEN Raises("VCardValueError", "NOTE_INVALID_PARAMETER_VALUE", EmptyContext)
    ELSE Passes

\* the dictionary's keys
ParameterNames(parameters) == { parameters[i].name : i \in 1..Len(parameters) }

_expect_no_parameter(parameters, parameter_name, conflicting_parameter_name) ==
    IF conflicting_parameter_name \in ParameterNames(parameters)
    THEN Raises("VCardValueError", "NOTE_MISMATCH_PARAMETER", EmptyContext)
    ELSE Passes

StringContext(s) == [EmptyContext EXCEPT !.String = {s}]

\* s.split(sep) for a one-character sep
RECURSIVE split(_, _)
split(s, sep) ==
    IF \E i \in 1..Len(s) : s[i] = sep
    THEN LET i == Min({ j \in 1..Len(s) : s[j] = sep })
         IN  <<SliceTo(s, i - 1)>> \o split(SliceFrom(s, i), sep)
    ELSE <<s>>

\* what a pattern ^...$ may match: the text, or the text less a final "\n"
DollarForms(s) ==
    {s} \cup (IF Len(s) >= 1 /\ s[Len(s)] = LF THEN {SliceTo(s, Len(s) - 1)} ELSE {})

\* VALID_LANGUAGE_TAG  ^([a-z]{1,8})(-[a-z]{1,8})*$
lowercase_letters == { ascii_lowercase[i] : i \in 1..26 }
IsLanguageTag(s) ==
    \E t \in DollarForms(s) :
        \A i \in 1..Len(split(t, "-")) :
            LET part == split(t, "-")[i]
            IN  Len(part) \in 1..8 /\ AllIn(part, lowercase_letters)

validate_language_tag(s) ==
    IF ~IsLanguageTag(lower(s))
    THEN Raises("VCardValueError", "NOTE_INVALID_LANGUAGE_VALUE", StringContext(lower(s)))
    ELSE Passes

\* VALID_X_NAME  ^X-[ID_CHARACTERS]+$
validate_x_name(s) ==
    IF ~(startswith(s, <<"X", "-">>) /\ MatchPlus(SliceFrom(s, 2), ID_CHARACTERS))
    THEN Raises("VCardNameError", "NOTE_INVALID_X_NAME", StringContext(s))
    ELSE Passes

\* VALID_PRESENTATION_TEXT  ^[SAFE_CHARACTERS]*$
validate_presentation_text(s) ==
    IF ~MatchStar(s, SAFE_CHARACTERS)
    THEN Raises("VCardValueError", "NOTE_INVALID_PARAMETER_VALUE", StringContext(s))
    ELSE Passes

RECURSIVE TextFrom(_, _)
\* ([SAFE_CHARACTERS:"]|(\\[\;,nN]))* matches s from position i to its end
TextFrom(s, i) ==
    IF i > Len(s) THEN TRUE
    ELSE IF s[i] \in SAFE_CHARACTERS \cup {":", DOUBLE_QUOTE_CHARACTER}
         THEN TextFrom(s, i + 1)
    ELSE IF s[i] = BS /\ i + 1 <= Len(s) /\ s[i + 1] \in ESCAPED_CHARACTERS
         THEN TextFrom(s, i + 2)
    ELSE FALSE

\* VALID_TEXT
validate_text_value(s) ==
    IF ~(\E t \in DollarForms(s) : TextFrom(t, 1))
    THEN Raises("VCardValueError", "NOTE_INVALID_TEXT_VALUE", StringContext(s))
    ELSE Passes

\* VALID_QUOTED_STRING  ^"[QUOTE_SAFE_CHARACTERS]"$ : one character in quotes
validate_quoted_string(s) ==
    IF ~(\E t \in DollarForms(s) :
            /\ Len(t) = 3
            /\ t[1] = DOUBLE_QUOTE_CHARACTER /\ t[3] = DOUBLE_QUOTE_CHARACTER
            /\ t[2] \in QUOTE_SAFE_CHARACTERS)
    THEN Raises("VCardValueError", "NOTE_INVALID_PARAMETER_VALUE", StringContext(s))
    ELSE Passes

validate_param_value(s) ==
    IF validate_presentation_text(s).raised
    THEN IF validate_quoted_string(s).raised
         THEN Raises("VCardValueError", "NOTE_INVALID_PARAMETER_VALUE", StringContext(s))
         ELSE Passes
    ELSE Passes

\* VALID_FLOAT  ^[+-]?\d+(\.\d+)?$
IsFloat(s) ==
    \E t \in DollarForms(s) :
        LET u == IF Len(t) >= 1 /\ t[1] \in {"+", "-"} THEN Tail(t) ELSE t
            parts == split(u, ".")
        IN  /\ Len(parts) \in 1..2
            /\ \A i \in 1..Len(parts) : Len(parts[i]) >= 1 /\ AllIn(parts[i], digits)

validate_float(s) ==
    IF ~IsFloat(s)
    THEN Raises("VCardValueError", "NOTE_INVALID_SUB_VALUE", EmptyContext)
    ELSE Passes

\* text-param: the LANGUAGE and X- branches leave through the end of the
\* function, the X- branch after param_values.pop(), which empties the set
\* the property holds.  The value returned here is that set afterwards.
validate_text_parameter(parameter) ==
    LET param_name == upper(parameter.name)
        param_values == parameter.values
        only == CHOOSE v \in param_values : TRUE
    IN  IF param_name = <<"V","A","L","U","E">>
        THEN IF param_values # {<<"p","t","e","x","t">>}
             THEN Raises("VCardValueError", "NOTE_INVALID_PARAMETER_VALUE", EmptyContext)
             ELSE Returns(param_values)
        ELSE IF param_name = <<"L","A","N","G","U","A","G","E">>
        THEN IF Cardinality(param_values) # 1
             THEN Raises("VCardValueError", "NOTE_INVALID_PARAMETER_VALUE", EmptyContext)
             ELSE Returning(validate_language_tag(only), param_values)
        ELSE Then(validate_x_name(param_name),
                  IF Cardinality(param_values) # 1
                  THEN Raises("VCardValueError", "NOTE_INVALID_PARAMETER_VALUE", EmptyContext)
                  ELSE Returning(validate_param_value(only), param_values \ {only}))

RECURSIVE validate_text_parameters(_, _)
\* for parameter in property_.parameters.items(): validate_text_parameter(parameter)
\* from the i-th item on; returns the dictionary as the calls leave it
validate_text_parameters(parameters, i) ==
    IF i > Len(parameters) THEN Returns(parameters)
    ELSE LET one == validate_text_parameter(parameters[i])
         IN  IF one.raised THEN one
             ELSE Then(one, validate_text_parameters(
                      [parameters EXCEPT ![i].values = one.value], i + 1))

DigitValue(c) == CHOOSE n \in 0..9 : <<"0","1","2","3","4","5","6","7","8","9">>[n + 1] = c

RECURSIVE int(_)
\* int(s) for a string of digits
int(s) == IF Len(s) = 0 THEN 0 ELSE 10 * int(SliceTo(s, Len(s) - 1)) + DigitValue(s[Len(s)])

IsLeapYear(y) == y % 4 = 0 /\ (y % 100 # 0 \/ y % 400 = 0)
DaysInMonth(y, m) ==
    IF m = 2 THEN (IF IsLeapYear(y) THEN 29 ELSE 28)
    ELSE IF m \in {4, 6, 9, 11} THEN 30 ELSE 31

\* VALID_DATE  ^\d{4}-?\d{2}-?\d{2}$
MatchesValidDate(s) ==
    \E t \in DollarForms(s) : \E d1, d2 \in {0, 1} :
        /\ Len(t) = 8 + d1 + d2
        /\ AllIn(Slice(t, 0, 4), digits)
        /\ d1 = 1 => t[5] = "-"
        /\ AllIn(Slice(t, 4 + d1, 6 + d1), digits)
        /\ d2 = 1 => t[7 + d1] = "-"
        /\ AllIn(Slice(t, 6 + d1 + d2, 8 + d1 + d2), digits)

\* dateutil's isoparse on a text VALID_DATE matches: YYYYMMDD or YYYY-MM-DD
\* (one dash without the other is no ISO date) naming a day of the calendar
isoparse_date_ok(s) ==
    LET dashes == Len(s) - 8
        y == int(Slice(s, 0, 4))
        m == int(IF dashes = 2 THEN Slice(s, 5, 7) ELSE Slice(s, 4, 6))
        d == int(IF dashes = 2 THEN Slice(s, 8, 10) ELSE Slice(s, 6, 8))
    IN  /\ dashes \in {0, 2}
        /\ y >= 1 /\ m \in 1..12 /\ d >= 1 /\ d <= DaysInMonth(y, m)

validate_date(s) ==
    IF ~MatchesValidDate(s)
    THEN Raises("VCardValueError", "NOTE_INVALID_DATE", StringContext(s))
    ELSE IF ~isoparse_date_ok(s)
    THEN Raises("VCardValueError", "NOTE_INVALID_DATE", StringContext(s))
    ELSE Passes

\* VALID_TIMEZONE  ^(Z|[+-]\d{2}:?\d{2})$
MatchesValidTimezone(s) ==
    \E t \in DollarForms(s) :
        \/ t = <<"Z">>
        \/ /\ Len(t) \in {5, 6}
           /\ t[1] \in {"+", "-"}
           /\ AllIn(Slice(t, 1, 3), digits)
           /\ Len(t) = 6 => t[4] = ":"
           /\ AllIn(Slice(t, Len(t) - 2, Len(t)), digits)

\* dateutil's isoparse of "2000-01-01 00:00:00.0" followed by the offset:
\* hours up to 23 and minutes up to 59
isoparse_offset_ok(s) ==
    \/ s = <<"Z">>
    \/ int(Slice(s, 1, 3)) <= 23 /\ int(Slice(s, Len(s) - 2, Len(s))) <= 59

validate_time_zone(s) ==
    IF ~MatchesValidTimezone(s)
    THEN Raises("VCardValueError", "NOTE_INVALID_TIME_ZONE", StringContext(s))
    ELSE IF ~isoparse_offset_ok(s)
    THEN Raises("VCardValueError", "NOTE_INVALID_TIME_ZONE", StringContext(s))
    ELSE Passes

\* index of the first character of s that is in class, Len(s) + 1 if none
FirstIn(s, class) ==
    IF \E i \in 1..Len(s) : s[i] \in class
    THEN Min({ i \in 1..Len(s) : s[i] \in class }) ELSE Len(s) + 1

RECURSIVE lstrip(_, _)
lstrip(s, class) == IF Len(s) >= 1 /\ s[1] \in class THEN lstrip(Tail(s), class) ELSE s

\* urllib.parse
scheme_chars == ascii_letters \cup digits \cup {"+", "-", "."}
uses_params ==
    { <<>>, <<"f","t","p">>, <<"h","d","l">>, <<"p","r","o","s","p","e","r","o">>,
      <<"h","t","t","p">>, <<"i","m","a","p">>, <<"h","t","t","p","s">>,
      <<"s","h","t","t","p">>, <<"r","t","s","p">>, <<"r","t","s","p","s">>,
      <<"r","t","s","p","u">>, <<"s","i","p">>, <<"s","i","p","s">>, <<"m","m","s">>,
      <<"s","f","t","p">>, <<"t","e","l">> }

\* urlsplit: the scheme is the text before the first colon when it starts
\* with a letter and is made of scheme characters, in lower case
url_scheme(url) ==
    LET i == FirstIn(url, {":"})
    IN  IF /\ i > 1 /\ i <= Len(url)
           /\ url[1] \in ascii_letters
           /\ AllIn(SliceTo(url, i - 1), scheme_chars)
        THEN lower(SliceTo(url, i - 1)) ELSE <<>>

\* urlsplit: url = url[i + 1:] after a scheme
url_after_scheme(url, scheme) ==
    IF Len(scheme) = 0 THEN url ELSE SliceFrom(url, Len(scheme) + 1)

\* _splitnetloc(url, 2) after "//": the text up to the first of / ? #
url_netloc(url) ==
    IF startswith(url, <<"/", "/">>)
    THEN SliceTo(SliceFrom(url, 2), FirstIn(SliceFrom(url, 2), {"/", "?", "#"}) - 1)
    ELSE <<>>

url_after_netloc(url, netloc) ==
    IF startswith(url, <<"/", "/">>) THEN SliceFrom(url, 2 + Len(netloc)) ELSE url

\* the index of the last "/" of the text, 0 without one
last_slash(url) ==
    IF \E k \in 1..Len(url) : url[k] = "/"
    THEN Max({ k \in 1..Len(url) : url[k] = "/" }) ELSE 0

\* _splitparams(url): the text before the first ";" after the last "/"
_splitparams(url) ==
    SliceTo(url, FirstIn(SliceFrom(url, last_slash(url)), {";"}) + last_slash(url) - 1)

\* the fragment and the query are cut off; the parameters are, for the
\* schemes of uses_params
url_path(url, scheme) ==
    IF scheme \in uses_params /\ ";" \in { url[k] : k \in 1..Len(url) }
    THEN _splitparams(url) ELSE url

without_fragment(url) == SliceTo(url, FirstIn(url, {"#"}) - 1)
without_query(url) == SliceTo(url, FirstIn(url, {"?"}) - 1)

\* invalid stands for the ValueError of a netloc with one bracket only
url_parts(scheme, netloc, path) ==
    [scheme |-> scheme, netloc |-> netloc, path |-> path,
     invalid |-> ("[" \in { netloc[k] : k \in 1..Len(netloc) })
                     # ("]" \in { netloc[k] : k \in 1..Len(netloc) })]

urlsplit_netloc(url, scheme, netloc) ==
    url_parts(scheme, netloc,
              url_path(without_query(without_fragment(url_after_netloc(url, netloc))),
                       scheme))

urlsplit_scheme(url, scheme) == urlsplit_netloc(url, scheme, url_netloc(url))

urlsplit(url) == urlsplit_scheme(url_after_scheme(url, url_scheme(url)), url_scheme(url))

\* urlparse(text), its first three parts: scheme, netloc, path
urlparse(s) ==
    urlsplit(SelectSeq(lstrip(s, {SPACE_CHARACTER, TAB, CR, LF}),
                       LAMBDA c : c \notin {TAB, CR, LF}))

\* what validate_uri makes of the parts of the text
validate_uri_parts(s, parts) ==
    IF parts.invalid THEN Raises("ValueError", "Invalid IPv6 URL", EmptyContext)
    ELSE IF parts.scheme = <<>> \/ (parts.netloc = <<>> /\ parts.path = <<>>)
    THEN Raises("VCardValueError", "NOTE_INVALID_URI", StringContext(s))
    ELSE Passes

validate_uri(s) == validate_uri_parts(s, urlparse(s))

-----------------------------------------------------------------------------
(* vcard_validators.py: the rule of each property.  A property is          *)
(* [name, values, parameters]; parameters is the dictionary in insertion   *)
(* order, a sequence of [name, values] with values a set of strings.  Each *)
(* handler returns the property as the call leaves it.                     *)

RECURSIVE InOrder(_)
\* the statements of a loop body, one outcome per iteration
InOrder(outcomes) ==
    IF Len(outcomes) = 0 THEN Passes
    ELSE Then(Head(outcomes), InOrder(Tail(outcomes)))

RECURSIVE SetInOrder(_)
\* the elements of a set in the order an iteration visits them
SetInOrder(S) ==
    IF S = {} THEN <<>>
    ELSE LET x == CHOOSE y \in S : TRUE IN <<x>> \o SetInOrder(S \ {x})

ForEach(seq, Body(_)) == InOrder([i \in 1..Len(seq) |-> Body(seq[i])])
ForEachIn(S, Body(_)) == ForEach(SetInOrder(S), Body)

TYPE == <<"T","Y","P","E">>
VALUE == <<"V","A","L","U","E">>
ENCODING == <<"E","N","C","O","D","I","N","G">>
CONTEXT == <<"C","O","N","T","E","X","T">>
uri == <<"u","r","i">>

handle_url(property_) ==
    Returning(
        Then(_expect_no_parameters(property_),
        Then(_expect_value_count(property_.values, 1),
             validate_uri(property_.values[1][1]))),
        property_)

handle_agent(property_) ==
    LET param(parameter) ==
            IF upper(parameter.name) # VALUE
            THEN Raises("VCardNameError", "NOTE_INVALID_PARAMETER_NAME", EmptyContext)
            ELSE IF parameter.values # {uri}
            THEN Raises("VCardValueError", "NOTE_INVALID_PARAMETER_VALUE", EmptyContext)
            ELSE Passes
        each(value) ==
            IF Len(value) # 1
            THEN Raises("VCardItemCountError", "NOTE_INVALID_SUB_VALUE_COUNT", EmptyContext)
            ELSE validate_uri(value[1])
    IN  Returning(
            Then(ForEach(property_.parameters, param),
            Then(_expect_value_count(property_.values, 1),
                 ForEach(property_.values, each))),
            property_)

\* the body shared by handle_role, handle_title and handle_fn
text_property(property_) ==
    LET params == validate_text_parameters(property_.parameters, 1)
    IN  Returning(
            Then(params,
            Then(_expect_value_count(property_.values, 1),
            Then(_expect_sub_value_count(property_.values[1], 1),
                 validate_text_value(property_.values[1][1])))),
            [property_ EXCEPT !.parameters = params.value])

handle_role(property_) == text_property(property_)
handle_title(property_) == text_property(property_)
handle_fn(property_) == text_property(property_)

handle_geo(property_) ==
    LET each(value) ==
            IF Len(value) # 1
            THEN Raises("VCardItemCountError", "NOTE_INVALID_SUB_VALUE_COUNT", EmptyContext)
            ELSE validate_float(value[1])
    IN  Returning(
            Then(_expect_no_parameters(property_),
            Then(_expect_value_count(property_.values, 2),
                 ForEach(property_.values, each))),
            property_)

handle_tz(property_) ==
    Returning(
        Then(_expect_no_parameters(property_),
        Then(_expect_value_count(property_.values, 1),
        Then(_expect_sub_value_count(property_.values[1], 1),
             validate_time_zone(property_.values[1][1])))),
        property_)

handle_mailer(property_) ==
    Returning(
        Then(_expect_no_parameters(property_),
        Then(_expect_value_count(property_.values, 1),
        Then(_expect_value_count(property_.values[1], 1),
             validate_text_value(property_.values[1][1])))),
        property_)

\* [value.lower() for value in param_values] == [default]
IsDefaultType(param_values, default) ==
    Cardinality(param_values) = 1 /\ \A v \in param_values : lower(v) = default

\* handle_email with the unknown TYPE value refused, as in handle_tel
handle_email_type_checked(property_) ==
    LET sub(param_sub_value) ==
            IF lower(param_sub_value) \notin EMAIL_TYPE_VALUES
            THEN Raises("VCardValueError", "NOTE_INVALID_PARAMETER_VALUE", EmptyContext)
            ELSE Passes
        param(parameter) ==
            IF upper(parameter.name) = TYPE
            THEN Then(ForEachIn(parameter.values, sub),
                      IF IsDefaultType(parameter.values, <<"i","n","t","e","r","n","e","t">>)
                      THEN Warns("WARN_DEFAULT_TYPE_VALUE") ELSE Passes)
            ELSE Raises("VCardNameError", "NOTE_INVALID_PARAMETER_NAME", EmptyContext)
    IN  Returning(
            Then(ForEach(property_.parameters, param),
            Then(_expect_value_count(property_.values, 1),
            Then(_expect_sub_value_count(property_.values[1], 1),
                 validate_text_value(property_.values[1][1])))),
            property_)

handle_email(property_) ==
    LET sub(param_sub_value) ==
            IF lower(param_sub_value) \notin EMAIL_TYPE_VALUES
            THEN Warns("WARN_INVALID_EMAIL_TYPE") ELSE Passes
        param(parameter) ==
            IF upper(parameter.name) = TYPE
            THEN Then(ForEachIn(parameter.values, sub),
                      IF IsDefaultType(parameter.values, <<"i","n","t","e","r","n","e","t">>)
                      THEN Warns("WARN_DEFAULT_TYPE_VALUE") ELSE Passes)
            ELSE Raises("VCardNameError", "NOTE_INVALID_PARAMETER_NAME", EmptyContext)
    IN  Returning(
            Then(ForEach(property_.parameters, param),
            Then(_expect_value_count(property_.values, 1),
            Then(_expect_sub_value_count(property_.values[1], 1),
                 validate_text_value(property_.values[1][1])))),
            property_)

\* handle_tel with the check of the TYPE values turned into a warning, as in
\* handle_email
handle_tel_type_unchecked(property_) ==
    LET param(parameter) ==
            IF upper(parameter.name) = TYPE
            THEN IF IsDefaultType(parameter.values, <<"v","o","i","c","e">>)
                 THEN Warns("WARN_DEFAULT_TYPE_VALUE") ELSE Passes
            ELSE Raises("VCardNameError", "NOTE_INVALID_PARAMETER_NAME", EmptyContext)
    IN  Returning(
            Then(ForEach(property_.parameters, param),
            Then(_expect_value_count(property_.values, 1),
                 _expect_sub_value_count(property_.values[1], 1))),
            property_)

handle_tel(property_) ==
    LET sub(param_sub_value) ==
            IF lower(param_sub_value) \notin TELEPHONE_TYPE_VALUES
            THEN Raises("VCardValueError", "NOTE_INVALID_PARAMETER_VALUE", EmptyContext)
            ELSE Passes
        param(parameter) ==
            IF upper(parameter.name) = TYPE
            THEN Then(ForEachIn(parameter.values, sub),
                      IF IsDefaultType(parameter.values, <<"v","o","i","c","e">>)
                      THEN Warns("WARN_DEFAULT_TYPE_VALUE") ELSE Passes)
            ELSE Raises("VCardNameError", "NOTE_INVALID_PARAMETER_NAME", EmptyContext)
    IN  Returning(
            Then(ForEach(property_.parameters, param),
            Then(_expect_value_count(property_.values, 1),
                 _expect_sub_value_count(property_.values[1], 1))),
            property_)

DEFAULT_LABEL_TYPE ==
    { <<"i","n","t","l">>, <<"p","o","s","t","a","l">>, <<"p","a","r","c","e","l">>,
      <<"w","o","r","k">> }

RECURSIVE label_parameters(_, _)
\* the loop over the parameters shared by handle_label and handle_adr, from
\* the i-th item on: a TYPE parameter is checked against LABEL_TYPE_VALUES,
\* any other one makes the inner loop validate every parameter of the
\* property as a text parameter.  Returns the dictionary afterwards.
label_parameters(parameters, i) ==
    IF i > Len(parameters) THEN Returns(parameters)
    ELSE IF upper(parameters[i].name) = TYPE
    THEN LET sub(param_sub_value) ==
                 IF param_sub_value \notin LABEL_TYPE_VALUES
                 THEN Raises("VCardValueError", "NOTE_INVALID_PARAMETER_VALUE", EmptyContext)
                 ELSE Passes
         IN  Then(ForEachIn(parameters[i].values, sub),
             Then(IF parameters[i].values = DEFAULT_LABEL_TYPE
                  THEN Warns("WARN_DEFAULT_TYPE_VALUE") ELSE Passes,
                  label_parameters(parameters, i + 1)))
    ELSE LET all == validate_text_parameters(parameters, 1)
         IN  IF all.raised THEN all
             ELSE Then(all, label_parameters(all.value, i + 1))

handle_label(property_) ==
    LET params == label_parameters(property_.parameters, 1)
    IN  Returning(
            Then(params,
            Then(_expect_value_count(property_.values, 1),
            Then(_expect_sub_value_count(property_.values[1], 1),
                 validate_text_value(property_.values[1][1])))),
            [property_ EXCEPT !.parameters = params.value])

handle_adr(property_) ==
    LET params == label_parameters(property_.parameters, 1)
    IN  Returning(
            Then(_expect_value_count(property_.values, 7), params),
            [property_ EXCEPT !.parameters = params.value])

handle_bday(property_) ==
    Returning(
        Then(_expect_no_parameters(property_),
        Then(_expect_value_count(property_.values, 1),
        Then(_expect_sub_value_count(property_.values[1], 1),
             validate_date(property_.values[1][1])))),
        property_)

\* the loop over the parameters ended after its first turn
handle_photo_logo_first_parameter(property_) ==
    LET param(parameter) ==
            LET upper_parameter_name == upper(parameter.name)
            IN  IF upper_parameter_name = ENCODING
                THEN Then(_expect_parameter_values(parameter.values, {<<"b">>}),
                          _expect_no_parameter(property_.parameters,
                                               upper_parameter_name, VALUE))
                ELSE IF /\ upper_parameter_name = TYPE
                        /\ ENCODING \notin ParameterNames(property_.parameters)
                THEN Raises("VCardItemCountError", "NOTE_MISSING_PARAMETER", EmptyContext)
                ELSE IF upper_parameter_name = VALUE
                THEN Then(_expect_parameter_values(parameter.values, {uri}),
                          validate_uri(property_.values[1][1]))
                ELSE IF upper_parameter_name \notin {ENCODING, TYPE, VALUE}
                THEN Raises("VCardNameError", "NOTE_INVALID_PARAMETER_NAME", EmptyContext)
                ELSE Passes
    IN  Returning(
            Then(_expect_parameters(property_),
            Then(_expect_value_count(property_.values, 1),
            Then(_expect_sub_value_count(property_.values[1], 1),
                 ForEach(SubSeq(property_.parameters, 1, 1), param)))),
            property_)

handle_photo_logo(property_) ==
    LET param(parameter) ==
            LET upper_parameter_name == upper(parameter.name)
            IN  IF upper_parameter_name = ENCODING
                THEN Then(_expect_parameter_values(parameter.values, {<<"b">>}),
                          _expect_no_parameter(property_.parameters,
                                               upper_parameter_name, VALUE))
                ELSE IF /\ upper_parameter_name = TYPE
                        /\ ENCODING \notin ParameterNames(property_.parameters)
                THEN Raises("VCardItemCountError", "NOTE_MISSING_PARAMETER", EmptyContext)
                ELSE IF upper_parameter_name = VALUE
                THEN Then(_expect_parameter_values(parameter.values, {uri}),
                          validate_uri(property_.values[1][1]))
                ELSE IF upper_parameter_name \notin {ENCODING, TYPE, VALUE}
                THEN Raises("VCardNameError", "NOTE_INVALID_PARAMETER_NAME", EmptyContext)
                ELSE Passes
    IN  Returning(
            Then(_expect_parameters(property_),
            Then(_expect_value_count(property_.values, 1),
            Then(_expect_sub_value_count(property_.values[1], 1),
                 ForEach(property_.parameters, param)))),
            property_)

handle_nickname(property_) ==
    LET params == validate_text_parameters(property_.parameters, 1)
    IN  Returning(
            Then(params, _expect_value_count(property_.values, 1)),
            [property_ EXCEPT !.parameters = params.value])

\* "".join(["".join(names) for names in property_.values])
AllNamesJoined(values) ==
    Join([i \in 1..Len(values) |-> Join(values[i], <<>>)], <<>>)

\* handle_n expecting four values, the number of the semicolons of a name
handle_n_four_values(property_) ==
    LET params == validate_text_parameters(property_.parameters, 1)
        one(name) ==
            Then(validate_text_value(name),
                 IF /\ \E k \in 1..Len(name) : name[k] = SPACE_CHARACTER
                    /\ AllNamesJoined(property_.values) # name
                 THEN Warns("WARN_MULTIPLE_NAMES") ELSE Passes)
        each(names) == ForEach(names, one)
    IN  Returning(
            Then(params,
            Then(_expect_value_count(property_.values, 4),
                 ForEach(property_.values, each))),
            [property_ EXCEPT !.parameters = params.value])

handle_n(property_) ==
    LET params == validate_text_parameters(property_.parameters, 1)
        one(name) ==
            Then(validate_text_value(name),
                 IF /\ \E k \in 1..Len(name) : name[k] = SPACE_CHARACTER
                    /\ AllNamesJoined(property_.values) # name
                 THEN Warns("WARN_MULTIPLE_NAMES") ELSE Passes)
        each(names) == ForEach(names, one)
    IN  Returning(
            Then(params,
            Then(_expect_value_count(property_.values, 5),
                 ForEach(property_.values, each))),
            [property_ EXCEPT !.parameters = params.value])

handle_version(property_) ==
    Returning(
        Then(_expect_no_parameters(property_),
        Then(_expect_value_count(property_.values, 1),
             IF property_.values[1][1] # <<"3", ".", "0">>
             THEN Raises("VCardValueError", "NOTE_INVALID_VALUE", EmptyContext)
             ELSE Passes)),
        property_)

handle_source(property_) ==
    LET param(parameter) ==
            IF upper(parameter.name) = VALUE
            THEN IF parameter.values # {uri}
                 THEN Raises("VCardValueError", "NOTE_INVALID_PARAMETER_VALUE", EmptyContext)
                 ELSE IF CONTEXT \in ParameterNames(property_.parameters)
                 THEN Raises("VCardValueError", "NOTE_MISMATCH_PARAMETER", EmptyContext)
                 ELSE Passes
            ELSE IF upper(parameter.name) = CONTEXT
            THEN IF parameter.values # {<<"w","o","r","d">>}
                 THEN Raises("VCardValueError", "NOTE_INVALID_PARAMETER_VALUE", EmptyContext)
                 ELSE IF VALUE \in ParameterNames(property_.parameters)
                 THEN Raises("VCardValueError", "NOTE_MISMATCH_PARAMETER", EmptyContext)
                 ELSE Passes
            ELSE Raises("VCardNameError", "NOTE_INVALID_PARAMETER_NAME", EmptyContext)
    IN  Returning(
            Then(_expect_parameters(property_), ForEach(property_.parameters, param)),
            property_)

vcard == <<"v","c","a","r","d">>

handle_profile(property_) ==
    Returning(
        Then(_expect_no_parameters(property_),
        Then(_expect_value_count(property_.values, 1),
        Then(_expect_sub_value_count(property_.values[1], 1),
        Then(IF lower(property_.values[1][1]) # vcard
             THEN Raises("VCardValueError", "NOTE_INVALID_VALUE", EmptyContext)
             ELSE Passes,
             validate_text_value(property_.values[1][1]))))),
        property_)

handle_name(property_) ==
    Returning(
        Then(_expect_no_parameters(property_),
        Then(_expect_value_count(property_.values, 1),
        Then(_expect_sub_value_count(property_.values[1], 1),
             validate_text_value(property_.values[1][1])))),
        property_)

handle_begin_end(property_) ==
    Returning(
        Then(_expect_no_parameters(property_),
        Then(_expect_value_count(property_.values, 1),
        Then(_expect_sub_value_count(property_.values[1], 1),
             IF lower(property_.values[1][1]) # vcard
             THEN Raises("VCardValueError", "NOTE_INVALID_VALUE", EmptyContext)
             ELSE Passes))),
        property_)

\* the names with a rule in the dictionary of validate_vcard_property
REGISTERED_PROPERTIES ==
    { <<"A","D","R">>, <<"A","G","E","N","T">>, <<"B","D","A","Y">>,
      <<"B","E","G","I","N">>, <<"E","M","A","I","L">>, <<"E","N","D">>, <<"F","N">>,
      <<"G","E","O">>, <<"L","A","B","E","L">>, <<"L","O","G","O">>,
      <<"M","A","I","L","E","R">>, <<"N">>, <<"N","A","M","E">>,
      <<"N","I","C","K","N","A","M","E">>, <<"P","H","O","T","O">>,
      <<"P","R","O","F","I","L","E">>, <<"R","O","L","E">>, <<"S","O","U","R","C","E">>,
      <<"T","E","L">>, <<"T","I","T","L","E">>, <<"T","Z">>, <<"U","R","L">>,
      <<"V","E","R","S","I","O","N">> }

\* {...}[property_name](property_)
handle(property_name, property_) ==
    CASE property_name = <<"A","D","R">> -> handle_adr(property_)
      [] property_name = <<"A","G","E","N","T">> -> handle_agent(property_)
      [] property_name = <<"B","D","A","Y">> -> handle_bday(property_)
      [] property_name = <<"B","E","G","I","N">> -> handle_begin_end(property_)
      [] property_name = <<"E","M","A","I","L">> -> handle_email(property_)
      [] property_name = <<"E","N","D">> -> handle_begin_end(property_)
      [] property_name = <<"F","N">> -> handle_fn(property_)
      [] property_name = <<"G","E","O">> -> handle_geo(property_)
      [] property_name = <<"L","A","B","E","L">> -> handle_label(property_)
      [] property_name = <<"L","O","G","O">> -> handle_photo_logo(property_)
      [] property_name = <<"M","A","I","L","E","R">> -> handle_mailer(property_)
      [] property_name = <<"N">> -> handle_n(property_)
      [] property_name = <<"N","A","M","E">> -> handle_name(property_)
      [] property_name = <<"N","I","C","K","N","A","M","E">> -> handle_nickname(property_)
      [] property_name = <<"P","H","O","T","O">> -> handle_photo_logo(property_)
      [] property_name = <<"P","R","O","F","I","L","E">> -> handle_profile(property_)
      [] property_name = <<"R","O","L","E">> -> handle_role(property_)
      [] property_name = <<"S","O","U","R","C","E">> -> handle_source(property_)
      [] property_name = <<"T","E","L">> -> handle_tel(property_)
      [] property_name = <<"T","I","T","L","E">> -> handle_title(property_)
      [] property_name = <<"T","Z">> -> handle_tz(property_)
      [] property_name = <<"U","R","L">> -> handle_url(property_)
      [] property_name = <<"V","E","R","S","I","O","N">> -> handle_version(property_)

\* an error caught by `except VCardError`, with context[key] = value
WithContext(outcome, key, value) ==
    IF outcome.raised /\ outcome.error.kind \in VCardErrorKinds
    THEN [outcome EXCEPT !.error.context =
             CASE key = "File" -> [@ EXCEPT !.File = {value}]
               [] key = "File line" -> [@ EXCEPT !.FileLine = {value}]
               [] key = "vCard line" -> [@ EXCEPT !.vCardLine = {value}]
               [] key = "Property" -> [@ EXCEPT !.Property = {value}]
               [] key = "Property line" -> [@ EXCEPT !.PropertyLine = {value}]]
    ELSE outcome

\* validate_vcard_property whose except clause passes over every error, not
\* the KeyError of the lookup alone
validate_vcard_property_passes_all(property_) == Returns(property_)

\* Returns the property as validation leaves it.  A name without a rule
\* raises KeyError at the lookup, which is passed over.
validate_vcard_property(property_) ==
    LET property_name == upper(property_.name)
    IN  IF property_name \notin REGISTERED_PROPERTIES THEN Returns(property_)
        ELSE WithContext(handle(property_name, property_), "Property", property_name)

-----------------------------------------------------------------------------
(* vcard_validator.py: the property decomposer                             *)

\* ^[SAFE_CHARACTERS]+$|^"[QUOTE_SAFE_CHARACTERS]+"$
IsParamValue(s) ==
    \/ MatchPlus(s, SAFE_CHARACTERS)
    \/ \E t \in DollarForms(s) :
          /\ Len(t) >= 3
          /\ t[1] = DOUBLE_QUOTE_CHARACTER /\ t[Len(t)] = DOUBLE_QUOTE_CHARACTER
          /\ AllIn(Slice(t, 1, Len(t) - 1), QUOTE_SAFE_CHARACTERS)

SeqToSet(seq) == { seq[i] : i \in 1..Len(seq) }

get_vcard_property_param_values(values_string) ==
    LET check(value) ==
            IF ~IsParamValue(value)
            THEN Raises("VCardValueError", "NOTE_INVALID_VALUE", EmptyContext)
            ELSE Passes
        checked(values) == Returning(ForEachIn(values, check), values)
    IN  checked(SeqToSet(split_unescaped(values_string, ",")))

get_vcard_property_sub_values(value_string) ==
    LET check(sub_value) ==
            IF ~MatchStar(sub_value, VALUE_CHARACTERS)
            THEN Raises("VCardValueError", "NOTE_INVALID_SUB_VALUE", EmptyContext)
            ELSE Passes
        checked(sub_values) == Returning(ForEach(sub_values, check), sub_values)
    IN  checked(split_unescaped(value_string, ","))

\* return {"name": param_name, "values": values}
parameter_of(param_name, values) ==
    IF values.raised THEN values
    ELSE IF ~MatchPlus(param_name, ID_CHARACTERS)
    THEN Raises("VCardNameError", "NOTE_INVALID_PARAMETER_NAME", EmptyContext)
    ELSE Returns([name |-> param_name, values |-> values.value])

\* the tuple unpacking raises ValueError unless the split has two elements
get_vcard_property_parameter(param_string) ==
    LET unpack(parts) ==
            IF Len(parts) # 2
            THEN Raises("VCardItemCountError", "NOTE_MISSING_PARAM_VALUE", EmptyContext)
            ELSE parameter_of(parts[1], get_vcard_property_param_values(parts[2]))
    IN  unpack(split_unescaped(param_string, "="))

\* params[param_name] = ... : a new key goes last, a known key keeps its place
\* params[param_name] = parameter["values"] whether or not the name is there
\* already: the later occurrence replaces the earlier one
MergeParameter_replacing(params, param_name, values) ==
    IF param_name \notin ParameterNames(params)
    THEN Append(params, [name |-> param_name, values |-> values])
    ELSE [i \in 1..Len(params) |->
             IF params[i].name = param_name
             THEN [params[i] EXCEPT !.values = values] ELSE params[i]]

MergeParameter(params, param_name, values) ==
    IF param_name \notin ParameterNames(params)
    THEN Append(params, [name |-> param_name, values |-> values])
    ELSE [i \in 1..Len(params) |->
             IF params[i].name = param_name
             THEN [params[i] EXCEPT !.values = @ \cup values] ELSE params[i]]

RECURSIVE merge_parameters(_, _)
\* the loop of get_vcard_property_params over the parameter strings
merge_parameters(parameter_strings, params) ==
    LET merge(parameter) ==
            IF parameter.raised THEN parameter
            ELSE merge_parameters(Tail(parameter_strings),
                     MergeParameter(params, upper(parameter.value.name),
                                    parameter.value.values))
    IN  IF Len(parameter_strings) = 0 THEN Returns(params)
        ELSE merge(get_vcard_property_parameter(Head(parameter_strings)))

get_vcard_property_params(params_string) ==
    IF Len(params_string) = 0 THEN Returns(<<>>)
    ELSE merge_parameters(split_unescaped(params_string, ";"), <<>>)

RECURSIVE sub_values_of(_)
\* the loop of get_vcard_property_values over the value strings
sub_values_of(sub_value_strings) ==
    LET append(first, others) ==
            IF first.raised THEN first
            ELSE IF others.raised THEN others
            ELSE Returns(<<first.value>> \o others.value)
    IN  IF Len(sub_value_strings) = 0 THEN Returns(<<>>)
        ELSE append(get_vcard_property_sub_values(Head(sub_value_strings)),
                    sub_values_of(Tail(sub_value_strings)))

get_vcard_property_values(values_string) ==
    sub_values_of(split_unescaped(
        SliceTo(values_string, Max({0, Len(values_string) - Len(NEWLINE_CHARACTERS)})),
        ";"))

\* property_name.upper() in ALL_PROPERTIES or ^X-[ID_CHARACTERS]+$, IGNORECASE
IsPropertyName(property_name) ==
    \/ upper(property_name) \in ALL_PROPERTIES
    \/ /\ startswith(upper(property_name), <<"X", "-">>)
       /\ MatchPlus(SliceFrom(property_name, 2), ID_CHARACTERS)

\* VcardProperty(property_name, property_values, parameters), validated
property_of(property_name, property_values, parameters) ==
    IF property_values.raised THEN property_values
    ELSE IF parameters.raised THEN parameters
    ELSE validate_vcard_property([name |-> property_name,
                                  values |-> property_values.value,
                                  parameters |-> parameters.value])

\* get_vcard_property once the line is split into the name with the
\* parameters and the values string
property_named(property_line, property_name_and_params, values_string) ==
    IF ~IsPropertyName(Head(property_name_and_params))
    THEN Raises("VCardNameError", "NOTE_INVALID_PROPERTY_NAME", EmptyContext)
    ELSE WithContext(
             property_of(Head(property_name_and_params),
                         get_vcard_property_values(values_string),
                         IF Len(property_name_and_params) # 1
                         THEN get_vcard_property_params(
                                  Join(Tail(property_name_and_params), <<";">>))
                         ELSE Returns(<<>>)),
             "Property line", property_line)

\* get_vcard_property that takes the second part alone for the values,
\* without joining the later parts to it
property_parted_second_part(property_line, property_parts) ==
    IF Len(property_parts) < 2
    THEN Raises("VCardItemCountError", "NOTE_MISSING_VALUE_STRING", EmptyContext)
    ELSE property_named(property_line, split_unescaped(property_parts[1], ";"),
                        property_parts[2])

\* get_vcard_property once the line is split at its colons
property_parted(property_line, property_parts) ==
    IF Len(property_parts) < 2
    THEN Raises("VCardItemCountError", "NOTE_MISSING_VALUE_STRING", EmptyContext)
    ELSE property_named(property_line, split_unescaped(property_parts[1], ";"),
                        Join(Tail(property_parts), <<":">>))

get_vcard_property(property_line) ==
    property_parted(property_line, split_unescaped(property_line, ":"))

-----------------------------------------------------------------------------
(* vcard_validator.py: lines, groups and the record                        *)

\* the line boundaries of str.splitlines; the characters without an escape
\* in a string are written by their code
LINE_BOUNDARIES == {LF, CR, "x0b", "x0c", "x1c", "x1d", "x1e", "x85", "u2028", "u2029"}

RECURSIVE splitlines(_, _)
\* s.splitlines(keepends)
splitlines(s, keepends) ==
    IF Len(s) = 0 THEN <<>>
    ELSE LET i == FirstIn(s, LINE_BOUNDARIES)
             end == IF i < Len(s) /\ s[i] = CR /\ s[i + 1] = LF THEN i + 1 ELSE i
         IN  IF i > Len(s) THEN <<s>>
             ELSE <<SliceTo(s, IF keepends THEN end ELSE i - 1)>>
                      \o splitlines(SliceFrom(s, end), keepends)

FileLineContext(n) == [EmptyContext EXCEPT !.FileLine = {n}]

\* line.startswith(" ")
is_continuation(line) == startswith(line, <<SPACE_CHARACTER>>)

\* property_lines[-1] = property_lines[-1][:-len(NEWLINE_CHARACTERS)] + line
\* : the leading space is kept
unfold_onto_keep_space(property_lines, line) ==
    [property_lines EXCEPT ![Len(property_lines)] =
        SliceTo(@, Max({0, Len(@) - Len(NEWLINE_CHARACTERS)})) \o line]

\* property_lines[-1] = property_lines[-1][:-len(NEWLINE_CHARACTERS)] + line[1:]
unfold_onto(property_lines, line) ==
    [property_lines EXCEPT ![Len(property_lines)] =
        SliceTo(@, Max({0, Len(@) - Len(NEWLINE_CHARACTERS)})) \o SliceFrom(line, 1)]

RECURSIVE unfold_from(_, _, _)
\* the loop of unfold_vcard_lines from the index-th line (0-based) on
unfold_from(lines, index, property_lines) ==
    IF index >= Len(lines) THEN Returns(property_lines)
    ELSE LET line == lines[index + 1]
             long == IF Len(line) > VCARD_LINE_MAX_LENGTH_RAW
                     THEN Warns("Long line") ELSE Passes
             folded == IF Len(lines[index]) < VCARD_LINE_MAX_LENGTH_RAW
                       THEN Warns("Short folded line")
                       ELSE IF line = <<SPACE_CHARACTER>> \o NEWLINE_CHARACTERS
                       THEN Warns("Empty folded line") ELSE Passes
         IN  IF ~endswith(line, NEWLINE_CHARACTERS)
             THEN Raises("VCardLineError", "NOTE_INVALID_LINE_SEPARATOR",
                         FileLineContext(index + 1))
             ELSE Then(long,
                  IF is_continuation(line)
                  THEN IF index = 0
                       THEN Raises("VCardLineError", "NOTE_CONTINUATION_AT_START",
                                   FileLineContext(index + 1))
                       ELSE Then(folded,
                                 unfold_from(lines, index + 1,
                                             unfold_onto(property_lines, line)))
                  ELSE unfold_from(lines, index + 1, Append(property_lines, line)))

unfold_vcard_lines(lines) == unfold_from(lines, 0, <<>>)

\* group_re with + for *: ^([ID_CHARACTERS]+)\.
group_match_non_empty(line) ==
    LET n == FirstIn(line, { line[i] : i \in 1..Len(line) } \ ID_CHARACTERS) - 1
    IN  IF n > 0 /\ n < Len(line) /\ line[n + 1] = "." THEN {SliceTo(line, n)} ELSE {}

\* group_re.match(line): ^([ID_CHARACTERS]*)\. ; no match is {}, a match is
\* {group(1)}
group_match(line) ==
    LET n == FirstIn(line, { line[i] : i \in 1..Len(line) } \ ID_CHARACTERS) - 1
    IN  IF n < Len(line) /\ line[n + 1] = "." THEN {SliceTo(line, n)} ELSE {}

TheGroup(match) == CHOOSE g \in match : TRUE

\* the group of an Optional[str]: {} is None
get_vcard_group(lines) ==
    LET group_match_ == group_match(lines[1])
        with_group(line_index) ==
            LET next_match == group_match(lines[line_index])
            IN  IF next_match = {}
                THEN Raises("VCardLineError", "NOTE_MISSING_GROUP",
                            FileLineContext(line_index))
                ELSE IF next_match # group_match_
                THEN Raises("VCardNameError", "NOTE_MISMATCH_GROUP",
                            FileLineContext(line_index))
                ELSE Passes
        without_group(line_index) ==
            IF group_match(lines[line_index]) # {}
            THEN Raises("VCardNameError", "NOTE_MISMATCH_GROUP",
                        FileLineContext(line_index))
            ELSE Passes
    IN  IF group_match_ # {}
        THEN IF Len(TheGroup(group_match_)) = 0
             THEN Raises("VCardLineError", "NOTE_DOT_AT_LINE_START", EmptyContext)
             ELSE Returning(ForEach([i \in 1..Len(lines) |-> i], with_group),
                            group_match_)
        ELSE Returning(ForEach([i \in 1..Len(lines) |-> i], without_group), {})

\* if group: lines[index] = line[len(group):]
remove_vcard_groups(lines, group) ==
    IF group # {} /\ Len(TheGroup(group)) # 0
    THEN [i \in 1..Len(lines) |-> SliceFrom(lines[i], Len(TheGroup(group)))]
    ELSE lines

RECURSIVE properties_from(_, _, _)
\* the first loop of get_vcard_properties from the index-th line (0-based) on
properties_from(lines, index, properties) ==
    IF index >= Len(lines) THEN Returns(properties)
    ELSE IF lines[index + 1] = NEWLINE_CHARACTERS
    THEN properties_from(lines, index + 1, properties)
    ELSE LET append(one) ==
                 IF one.raised THEN one
                 ELSE Then(one, properties_from(lines, index + 1,
                                                Append(properties, one.value)))
         IN  append(WithContext(get_vcard_property(lines[index + 1]),
                                "vCard line", index))

\* the second loop of get_vcard_properties without the check for END
mandatory_except_end(properties) ==
    LET names == { upper(properties[i].name) : i \in 1..Len(properties) }
        check(mandatory_property) ==
            IF mandatory_property \notin names /\ mandatory_property # <<"E","N","D">>
            THEN Raises("VCardItemCountError", "NOTE_MISSING_PROPERTY",
                        [EmptyContext EXCEPT !.Property = {mandatory_property}])
            ELSE Passes
    IN  ForEach(MANDATORY_PROPERTIES, check)

\* the second loop of get_vcard_properties
mandatory(properties) ==
    LET names == { upper(properties[i].name) : i \in 1..Len(properties) }
        check(mandatory_property) ==
            IF mandatory_property \notin names
            THEN Raises("VCardItemCountError", "NOTE_MISSING_PROPERTY",
                        [EmptyContext EXCEPT !.Property = {mandatory_property}])
            ELSE Passes
    IN  ForEach(MANDATORY_PROPERTIES, check)

get_vcard_properties(lines) ==
    LET checked(properties) ==
            IF properties.raised THEN properties
            ELSE Returning(Then(properties, mandatory(properties.value)),
                           properties.value)
    IN  checked(properties_from(lines, 0, <<>>))

\* the object that VCard.__init__ leaves: self.group, self.properties
vcard_built(group, properties) ==
    Returning(properties, [group |-> group, properties |-> properties.value])

\* VCard.__init__ from self.group on, lines being unfolded
vcard_of(lines, group) ==
    Then(group,
         vcard_built(group.value,
                     get_vcard_properties(remove_vcard_groups(lines, group.value))))

\* VCard.__init__ from the unfolded lines on
vcard_unfolded(lines) == Then(lines, vcard_of(lines.value, get_vcard_group(lines.value)))

\* VCard.__init__: the value is the object's [group, properties]
VCard(vcard_text) ==
    IF Len(vcard_text) = 0
    THEN Raises("VCardError", "NOTE_EMPTY_VCARD",
                [EmptyContext EXCEPT !.vCardLine = {1}, !.FileLine = {1}])
    ELSE vcard_unfolded(unfold_vcard_lines(splitlines(vcard_text, TRUE)))

\* validate_vcard_text that leaves the "File line" of the error as the
\* functions of the record have set it
validate_vcard_text_keeps_line(vcard_text, filename, line_index) ==
    WithContext(VCard(vcard_text), "File", filename)

validate_vcard_text(vcard_text, filename, line_index) ==
    WithContext(WithContext(VCard(vcard_text), "File", filename), "File line", line_index)

-----------------------------------------------------------------------------
(* Specification SpecSplit: split_unescaped run as its loop, on every text *)
(* of at most MaxTextLen characters of TextChars                           *)

MaxTextLen == 5
TextChars == {"a", BS, ",", ":"}
SplitSeparators == {",", ":"}

Texts == UNION { [1..n -> TextChars] : n \in 0..MaxTextLen }

\* the state of a function that is not running
IdleSplit == text = <<>> /\ separator = "" /\ result = <<>> /\ arg_text = <<>>
IdleProperty ==
    prop_line = <<>> /\ prop_outcome = Passes /\ prop_parts = <<>>

NoEdit == [kind |-> "none", line |-> 0, at |-> 0, prefixes |-> <<>>]
IdleVCard ==
    /\ vc_text = <<>> /\ vc_lines = <<>> /\ vc_group = {} /\ vc_properties = <<>>
    /\ vc_outcome = Passes /\ vc_raised_in = "" /\ vc_base = <<>> /\ vc_edit = NoEdit

IdleFile ==
    /\ vf_contents = <<>> /\ vf_index = 0 /\ vf_vcard_text = <<>> /\ vf_result = <<>>
    /\ vf_calls = <<>> /\ vf_file = <<>>

InitSplit ==
    /\ pc = "split"
    /\ IdleProperty
    /\ IdleVCard
    /\ IdleFile
    /\ arg_text \in Texts
    /\ text = arg_text
    /\ separator \in SplitSeparators
    /\ result = <<>>

\* one iteration with index is not None
SplitAppend ==
    /\ pc = "split"
    /\ find_unescaped(text, separator) # None
    /\ result' = Append(result, SliceTo(text, find_unescaped(text, separator)))
    /\ text' = SliceFrom(text, find_unescaped(text, separator) + 1)
    /\ UNCHANGED <<pc, separator, arg_text, propertyVars, vcardVars, fileVars>>

\* the last iteration: index is None, the rest is appended and returned
SplitReturn ==
    /\ pc = "split"
    /\ find_unescaped(text, separator) = None
    /\ result' = Append(result, text)
    /\ pc' = "returned"
    /\ UNCHANGED <<text, separator, arg_text, propertyVars, vcardVars, fileVars>>

NextSplit == SplitAppend \/ SplitReturn

SpecSplit == InitSplit /\ [][NextSplit]_vars

RECURSIVE BackslashRun(_, _)
\* length of the maximal run of backslashes that ends right before the
\* 0-based index i of s
BackslashRun(s, i) ==
    IF i >= 1 /\ s[i] = BS THEN 1 + BackslashRun(s, i - 1) ELSE 0

\* the 0-based indices of s that hold an unescaped occurrence of d
UnescapedIndices(s, d) ==
    { i \in 0..(Len(s) - 1) : s[i + 1] = d /\ BackslashRun(s, i) % 2 = 0 }

\* C1: when split_unescaped returns, its elements joined with the separator
\* between consecutive elements are the text it was called with, and no
\* element contains an unescaped occurrence of the separator.
C1_SplitJoinsBack ==
    pc = "returned" =>
        /\ Join(result, <<separator>>) = arg_text
        /\ \A n \in 1..Len(result) : UnescapedIndices(result[n], separator) = {}

\* a returned split of two or more elements, one of which keeps an escaped
\* separator and another a separator after two backslashes
C1_Witness ==
    /\ pc = "returned"
    /\ Len(result) >= 2
    /\ \E n \in 1..Len(result) : \E i \in 1..Len(result[n]) :
           result[n][i] = separator
    /\ \E n \in 1..Len(result) :
           Len(result[n]) >= 2 /\ result[n][Len(result[n])] = BS
           /\ result[n][Len(result[n]) - 1] = BS

C2_Examples ==
    /\ find_unescaped(<<"B","E","G","I","N",":","V","C","A","R","D">>, ":") = 5
    /\ find_unescaped(<<"f","o","o",BS,",","b","a","r",",","b","a","z">>, ",") = 8
    /\ find_unescaped(<<"f","o","o",BS,BS,",","b","a","r",",","b","a","z">>, ",") = 5
    /\ find_unescaped(<<"f","o","o",",","b","a","r",",","b","a","z">>, ";") = None

\* C2: find_unescaped returns the smallest index that holds the character
\* after a maximal run of backslashes of even length, None when there is no
\* such index; and the four documented examples.
C2_FindIsFirstUnescaped ==
    /\ find_unescaped(text, separator) =
           (IF UnescapedIndices(text, separator) = {} THEN None
            ELSE Min(UnescapedIndices(text, separator)))
    /\ C2_Examples

\* the loop has split once at an index found behind an escaped separator
C2_Witness ==
    /\ Len(result) = 1
    /\ pc = "split"
    /\ \E i \in 2..Len(result[1]) : result[1][i] = separator /\ result[1][i - 1] = BS
    /\ find_unescaped(arg_text, separator) = Len(result[1])

-----------------------------------------------------------------------------
(* Specification SpecProperty: get_vcard_property called on one logical    *)
(* line, written as a property name, parameters and a value                *)

PropertyNames ==
    { <<"V","E","R","S","I","O","N">>,
      <<"v","e","r","s","i","o","n">>,
      <<"T","E","L">>,
      <<"E","M","A","I","L">> }
ParameterTexts ==
    { <<>>,
      <<";">>,
      <<";","T","Y","P","E","=","c","e","l","l">>,
      <<";","T","Y","P","E","=","b","o","g","u","s">>,
      <<";","T","Y","P","E","=","C","E","L","L",",","v","o","i","c","e">>,
      <<";","T","Y","P","E","=","c","e","l","l",";","t","y","p","e","=","b","o","g","u","s">>,
      <<";","T","Y","P","E","=","v","o","i","c","e">>,
      <<";","T","Y","P","E","=","i","n","t","e","r","n","e","t">>,
      <<";","X","-","A","=","b">>,
      <<";","T","Y","P","E">> }
ValueTexts ==
    { <<"3",".","0">>,
      <<"2",".","1">>,
      <<"3",".","0",",","1">>,
      <<"3",".","0",";","1">>,
      <<>>,
      <<"+","1","-","5","5","5","-","0","1","0","0">>,
      <<"a","@","b",".","c">>,
      <<"3",".","0","\\",",","1">> }

\* what stands between the name with its parameters and the values: a colon,
\* nothing, an escaped colon
ColonTexts == { <<":">>, <<>>, <<BS, ":">> }
ColonNames == { <<"N","O","T","E">>, <<"F","N">>, <<"T","E","L">> }
ColonValues ==
    { <<"x">>,
      <<"a",":","b">>,
      <<"a","\\",":","b">>,
      <<"a",":","b",":","c">>,
      <<":">>,
      <<>> }

\* parameter specs that say TYPE or X-A in several ways, and the parameter
\* texts of one, two or three of them
ParameterSpecs ==
    { <<"T","Y","P","E","=","W","O","R","K">>,
      <<"T","Y","P","E","=","V","O","I","C","E">>,
      <<"t","y","p","e","=","W","O","R","K">>,
      <<"T","Y","P","E","=","W","O","R","K",",","V","O","I","C","E">>,
      <<"T","Y","P","E","=","V","O","I","C","E",",","W","O","R","K">>,
      <<"T","Y","P","E","=","W","O","R","K",",","V","O","I","C","E",",","W","O","R","K">>,
      <<"X","-","A","=","b">>,
      <<"x","-","a","=","c">> }
MaxSpecs == 3
SpecsJoined(specs) == Join([i \in DOMAIN specs |-> <<";">> \o specs[i]], <<>>)
MergedParameterTexts ==
    UNION { { SpecsJoined(specs) : specs \in [1..n -> ParameterSpecs] } : n \in 1..MaxSpecs }
\* parameter texts of one spec with no, one or several equals signs
EqualsParameterTexts ==
    { <<";","X","-","A","=","b","=","c">>,
      <<";","X","-","A">>,
      <<";","X","-","A","=","b","\\","=","c">>,
      <<";","X","-","A","\\","=","b">>,
      <<";","X","-","A","=">>,
      <<";","=","b">>,
      <<";","X","-","A","=","b","=","c","=","d">>,
      <<";","T","Y","P","E","=","a","=","b">> }
ParameterNamesOfLines == { <<"N","O","T","E">>, <<"T","E","L">> }

\* names without a rule, and what may be written with them
UnregisteredNames ==
    { <<"O","R","G">>, <<"N","O","T","E">>, <<"X","-","F","O","O">>, <<"x","-","f","o","o">>,
      <<"n","o","t","e">> }
UnregisteredParameterTexts ==
    { <<>>,
      <<";","T","Y","P","E","=","b","o","g","u","s">>,
      <<";","X","-","A","=","b">>,
      <<";","F","O","O","=","1",";","B","A","R","=","2">> }
UnregisteredValues ==
    { <<>>,
      <<"x">>,
      <<"a",";","b",";","c">>,
      <<"a",",","b">> }

\* lines whose value is a URI: a URI, a text without a scheme, a scheme with
\* nothing behind it, a text that urlparse refuses
UrlValues ==
    { <<"h","t","t","p",":","/","/","a","/","b">>, <<"x">>,
      <<"h","t","t","p",":","/","/","[","x">>, <<"h","t","t","p",":">> }
UriNames ==
    { <<"U","R","L">>, <<"S","O","U","R","C","E">>, <<"A","G","E","N","T">>, <<"P","H","O","T","O">>, <<"L","O","G","O">> }
UriParameterTexts ==
    { <<>>,
      <<";","V","A","L","U","E","=","u","r","i">>,
      <<";","C","O","N","T","E","X","T","=","w","o","r","d">>,
      <<";","E","N","C","O","D","I","N","G","=","b">>,
      <<";","V","A","L","U","E","=","t","e","x","t">> }

\* lines of the names whose value is one text, with text parameters
TextNames ==
    { <<"F","N">>,
      <<"T","I","T","L","E">>,
      <<"R","O","L","E">>,
      <<"M","A","I","L","E","R">> }
TextParameterTexts ==
    { <<>>,
      <<";","L","A","N","G","U","A","G","E","=","e","n">>,
      <<";","V","A","L","U","E","=","p","t","e","x","t">>,
      <<";","X","-","A","=","b">>,
      <<";","L","A","N","G","U","A","G","E","=","e","n",",","f","r">>,
      <<";","V","A","L","U","E","=","u","r","i">>,
      <<";","F","O","O","=","b">>,
      <<";","L","A","N","G","U","A","G","E","=","e","n",";","X","-","A","=","b">>,
      <<";","X","-","A","=","b",",","c">> }
TextValues ==
    { <<"x">>,
      <<"a",",","b">>,
      <<"a",";","b">>,
      <<"a","\\",",","b">>,
      <<"a","\\","b">> }

\* PHOTO and LOGO lines: up to MaxSpecs parameter specs in every order
PhotoNames == { <<"P","H","O","T","O">>, <<"L","O","G","O">> }
PhotoSpecs ==
    { <<"E","N","C","O","D","I","N","G","=","b">>,
      <<"e","n","c","o","d","i","n","g","=","B">>,
      <<"T","Y","P","E","=","J","P","E","G">>,
      <<"V","A","L","U","E","=","u","r","i">>,
      <<"v","a","l","u","e","=","t","e","x","t">>,
      <<"X","-","A","=","b">> }
PhotoParameterTexts ==
    UNION { { SpecsJoined(specs) : specs \in [1..n -> PhotoSpecs] } : n \in 0..MaxSpecs }
PhotoValues ==
    { <<"h","t","t","p",":","/","/","a","/","b">>,
      <<"x">>,
      <<"a",",","b">>,
      <<"a",";","b">> }

\* ADR and LABEL lines: up to MaxSpecs parameter specs in every order
AddressNames == { <<"A","D","R">>, <<"L","A","B","E","L">> }
AddressSpecs ==
    { <<"T","Y","P","E","=","h","o","m","e">>,
      <<"T","Y","P","E","=","d","o","m",",","w","o","r","k">>,
      <<"T","Y","P","E","=","b","o","g","u","s">>,
      <<"L","A","N","G","U","A","G","E","=","e","n">>,
      <<"V","A","L","U","E","=","p","t","e","x","t">>,
      <<"X","-","A","=","b">>,
      <<"X","-","B","=","c">> }
AddressParameterTexts ==
    UNION { { SpecsJoined(specs) : specs \in [1..n -> AddressSpecs] } : n \in 0..MaxSpecs }
AddressValues ==
    { <<";",";","s",";","c",";","r",";","p",";","n">>,
      <<"x">> }

\* N and NICKNAME lines with a text parameter
NameNames == { <<"N">>, <<"N","I","C","K","N","A","M","E">> }
NameParameterTexts == { <<>>, <<";","X","-","A","=","b">>, <<";","L","A","N","G","U","A","G","E","=","e","n">> }
NameValues == { <<"a",";","b",";","c",";","d",";","e">>, <<"x">> }

\* the property lines, in their parts
PropertyLines ==
    [name : PropertyNames, params : ParameterTexts, value : ValueTexts, colon : {<<":">>}]
    \cup [name : ColonNames, params : {<<>>, <<";","X","-","A","=","b">>},
          value : ColonValues, colon : ColonTexts]
    \cup [name : ParameterNamesOfLines,
          params : MergedParameterTexts \cup EqualsParameterTexts,
          value : {<<"x">>}, colon : {<<":">>}]
    \cup [name : UnregisteredNames, params : UnregisteredParameterTexts,
          value : UnregisteredValues, colon : {<<":">>}]
    \cup [name : UriNames, params : UriParameterTexts, value : UrlValues, colon : {<<":">>}]
    \cup [name : TextNames, params : TextParameterTexts, value : TextValues, colon : {<<":">>}]
    \cup [name : PhotoNames, params : PhotoParameterTexts, value : PhotoValues, colon : {<<":">>}]
    \cup [name : AddressNames, params : AddressParameterTexts, value : AddressValues,
          colon : {<<":">>}]
    \cup [name : NameNames, params : NameParameterTexts, value : NameValues, colon : {<<":">>}]

InitProperty ==
    /\ pc = "property"
    /\ IdleSplit
    /\ IdleVCard
    /\ IdleFile
    /\ prop_parts \in PropertyLines
    /\ prop_line = prop_parts.name \o prop_parts.params \o prop_parts.colon
                           \o prop_parts.value \o NEWLINE_CHARACTERS
    /\ prop_outcome = Passes

PropertyReturns ==
    LET returns(outcome) ==
            ~outcome.raised /\ prop_outcome' = outcome /\ pc' = "property returned"
    IN  pc = "property" /\ returns(get_vcard_property(prop_line))
    /\ UNCHANGED <<prop_line, prop_parts, splitVars, vcardVars, fileVars>>

PropertyRaises ==
    LET raises(outcome) ==
            outcome.raised /\ prop_outcome' = outcome /\ pc' = "property raised"
    IN  pc = "property" /\ raises(get_vcard_property(prop_line))
    /\ UNCHANGED <<prop_line, prop_parts, splitVars, vcardVars, fileVars>>

NextProperty == PropertyReturns \/ PropertyRaises

SpecProperty == InitProperty /\ [][NextProperty]_vars

-----------------------------------------------------------------------------
(* Specification SpecVCard: VCard(text) step by step, on the text of a     *)
(* record written from logical lines with one edit                         *)

LINE_BEGIN == <<"B","E","G","I","N",":","V","C","A","R","D">>
LINE_VERSION == <<"V","E","R","S","I","O","N",":","3",".","0">>
LINE_FN == <<"F","N",":","J","o","h","n"," ","D","o","e">>
LINE_N == <<"N",":","D","o","e",";","J","o","h","n",";",";",";">>
LINE_END == <<"E","N","D",":","V","C","A","R","D">>
LINE_TEL == <<"T","E","L",";","T","Y","P","E","=","c","e","l","l",":","+","1","-","5","5","5","-","0","1","0","0">>
LINE_VERSION21 == <<"V","E","R","S","I","O","N",":","2",".","1">>
LINE_FN2 == <<"F","N",":","J","."," ","D","o","e">>

LINE_TEL_VOICE == <<"T","E","L",";","T","Y","P","E","=","v","o","i","c","e",":","+","1","-","5","5","5","-","0","1","0","0">>
LINE_EMAIL == <<"E","M","A","I","L",";","T","Y","P","E","=","h","o","m","e",":","a","@","b",".","c">>
LINE_EMAIL_BOGUS == <<"E","M","A","I","L",";","T","Y","P","E","=","b","o","g","u","s",":","a","@","b",".","c">>
LINE_N_NAMES == <<"N",":","D","o","e",";","J","o","h","n"," ","P","a","u","l",";",";",";">>
LINE_NOTE == <<"N","O","T","E",":","x">>
\* a line of VCARD_LINE_MAX_LENGTH + 1 characters
LINE_NOTE_LONG == <<"N","O","T","E",":">> \o [i \in 1..(VCARD_LINE_MAX_LENGTH - 4) |-> "x"]

MinimalRecord == <<LINE_BEGIN, LINE_VERSION, LINE_FN, LINE_N, LINE_END>>

\* records that are valid and make the validation warn: a default TYPE, an
\* unknown EMAIL TYPE, a name of several words, a long line
WarningRecords ==
    { <<LINE_BEGIN, LINE_VERSION, LINE_FN, LINE_N, LINE_TEL_VOICE, LINE_END>>,
      <<LINE_BEGIN, LINE_VERSION, LINE_FN, LINE_N, LINE_EMAIL_BOGUS, LINE_END>>,
      <<LINE_BEGIN, LINE_VERSION, LINE_FN, LINE_N_NAMES, LINE_END>>,
      <<LINE_BEGIN, LINE_VERSION, LINE_FN, LINE_N, LINE_NOTE_LONG, LINE_END>> }

\* the logical lines of the records, without their line ends
BaseRecords ==
    { <<>>,
      MinimalRecord,
      <<LINE_BEGIN, LINE_VERSION, LINE_FN, LINE_N, LINE_TEL, LINE_END>>,
      <<LINE_BEGIN, LINE_VERSION21, LINE_FN, LINE_N, LINE_END>>,
      <<LINE_BEGIN, LINE_VERSION, LINE_FN, LINE_FN2, LINE_N, LINE_END>> }
    \cup WarningRecords

\* what is written in front of a line: nothing, a group, another group, a dot
GroupPrefixes == { <<>>, <<"g","r","p",".">>, <<"g","2",".">>, <<".">> }

\* the edits of a record: none; one line left out; one line folded after
\* its first `at' characters, with a space or ("tabfold") with a tab; one
\* line ended by LF alone; a prefix written in front of every line; one line
\* ("indent") with a space (at = 0) or a tab (at = 1) written in front of it
Edits(base) ==
    {NoEdit}
    \cup { [kind |-> "drop", line |-> k, at |-> 0, prefixes |-> <<>>] : k \in DOMAIN base }
    \cup UNION { { [kind |-> "fold", line |-> k, at |-> j, prefixes |-> <<>>] :
                     j \in 0..Len(base[k]) } : k \in DOMAIN base }
    \cup { [kind |-> "newline", line |-> k, at |-> 0, prefixes |-> <<>>] : k \in DOMAIN base }
    \cup UNION { { [kind |-> "tabfold", line |-> k, at |-> j, prefixes |-> <<>>] :
                     j \in 0..Len(base[k]) } : k \in DOMAIN base }
    \cup { [kind |-> "indent", line |-> k, at |-> j, prefixes |-> <<>>] :
             k \in DOMAIN base, j \in 0..1 }
    \cup { [kind |-> "group", line |-> 0, at |-> 0, prefixes |-> p] :
             p \in IF Len(base) = 0 \/ base \in WarningRecords
                   THEN {} ELSE [DOMAIN base -> GroupPrefixes] }

\* the physical text of the k-th line of the record after the edit
EditedLine(base, edit, k) ==
    IF edit.kind = "drop" /\ edit.line = k THEN <<>>
    ELSE IF edit.kind = "fold" /\ edit.line = k
    THEN SliceTo(base[k], edit.at) \o NEWLINE_CHARACTERS \o <<SPACE_CHARACTER>>
             \o SliceFrom(base[k], edit.at) \o NEWLINE_CHARACTERS
    ELSE IF edit.kind = "tabfold" /\ edit.line = k
    THEN SliceTo(base[k], edit.at) \o NEWLINE_CHARACTERS \o <<TAB>>
             \o SliceFrom(base[k], edit.at) \o NEWLINE_CHARACTERS
    ELSE IF edit.kind = "indent" /\ edit.line = k
    THEN <<IF edit.at = 0 THEN SPACE_CHARACTER ELSE TAB>> \o base[k] \o NEWLINE_CHARACTERS
    ELSE IF edit.kind = "newline" /\ edit.line = k THEN base[k] \o <<LF>>
    ELSE IF edit.kind = "group" THEN edit.prefixes[k] \o base[k] \o NEWLINE_CHARACTERS
    ELSE base[k] \o NEWLINE_CHARACTERS

Edited(base, edit) == Join([k \in DOMAIN base |-> EditedLine(base, edit, k)], <<>>)

InitVCard ==
    /\ pc = "VCard"
    /\ IdleSplit
    /\ IdleProperty
    /\ IdleFile
    /\ vc_base \in BaseRecords
    /\ vc_edit \in Edits(vc_base)
    /\ vc_text = Edited(vc_base, vc_edit)
    /\ vc_lines = <<>> /\ vc_group = {} /\ vc_properties = <<>>
    /\ vc_outcome = Passes /\ vc_raised_in = ""

\* one call made by VCard.__init__ has returned
VCardStep(outcome, next) ==
    /\ ~outcome.raised
    /\ vc_outcome' = Then(vc_outcome, Returning(outcome, NoValue))
    /\ pc' = next
    /\ UNCHANGED <<vc_raised_in, vc_text, vc_base, vc_edit, splitVars, propertyVars,
                   fileVars>>

\* one call made by VCard.__init__ has raised an error
VCardStepRaises(outcome, function) ==
    /\ outcome.raised
    /\ vc_outcome' = Then(vc_outcome, Returning(outcome, NoValue))
    /\ vc_raised_in' = function
    /\ pc' = "VCard raised"
    /\ UNCHANGED <<vc_lines, vc_group, vc_properties, vc_text, vc_base, vc_edit,
                   splitVars, propertyVars, fileVars>>

VCardEmpty ==
    /\ pc = "VCard"
    /\ Len(vc_text) = 0
    /\ VCardStepRaises(VCard(vc_text), "VCard")

Unfold ==
    /\ pc = "VCard"
    /\ Len(vc_text) # 0
    /\ LET returns(outcome) ==
               VCardStep(outcome, "get_vcard_group") /\ vc_lines' = outcome.value
       IN  returns(unfold_vcard_lines(splitlines(vc_text, TRUE)))
    /\ UNCHANGED <<vc_group, vc_properties>>

UnfoldRaises ==
    /\ pc = "VCard"
    /\ Len(vc_text) # 0
    /\ VCardStepRaises(unfold_vcard_lines(splitlines(vc_text, TRUE)), "unfold_vcard_lines")

GetGroup ==
    /\ pc = "get_vcard_group"
    /\ LET returns(outcome) ==
               VCardStep(outcome, "remove_vcard_groups") /\ vc_group' = outcome.value
       IN  returns(get_vcard_group(vc_lines))
    /\ UNCHANGED <<vc_lines, vc_properties>>

GetGroupRaises ==
    /\ pc = "get_vcard_group"
    /\ VCardStepRaises(get_vcard_group(vc_lines), "get_vcard_group")

RemoveGroups ==
    /\ pc = "remove_vcard_groups"
    /\ VCardStep(Passes, "get_vcard_properties")
    /\ vc_lines' = remove_vcard_groups(vc_lines, vc_group)
    /\ UNCHANGED <<vc_group, vc_properties>>

GetProperties ==
    /\ pc = "get_vcard_properties"
    /\ LET returns(outcome) ==
               VCardStep(outcome, "VCard returned") /\ vc_properties' = outcome.value
       IN  returns(get_vcard_properties(vc_lines))
    /\ UNCHANGED <<vc_lines, vc_group>>

GetPropertiesRaises ==
    /\ pc = "get_vcard_properties"
    /\ VCardStepRaises(get_vcard_properties(vc_lines), "get_vcard_properties")

NextVCard ==
    \/ VCardEmpty
    \/ Unfold \/ UnfoldRaises
    \/ GetGroup \/ GetGroupRaises
    \/ RemoveGroups
    \/ GetProperties \/ GetPropertiesRaises

SpecVCard == InitVCard /\ [][NextVCard]_vars

\* the steps amount to the constructor
VCardStepsAgree ==
    pc \in {"VCard returned", "VCard raised"} =>
        /\ vc_outcome.raised = VCard(vc_text).raised
        /\ vc_outcome.error = VCard(vc_text).error
        /\ vc_outcome.warnings = VCard(vc_text).warnings
        /\ pc = "VCard returned" =>
               VCard(vc_text).value = [group |-> vc_group, properties |-> vc_properties]

-----------------------------------------------------------------------------
(* Specification Spec: validate_file(filename, verbose) on a file written  *)
(* from records and a trailer                                              *)

LINE_URL == <<"U","R","L",":","h","t","t","p",":","/","/","[","x">>
LINE_END_LOWER == <<"e","n","d",":","v","c","a","r","d">>
LINE_BEGIN_CONTINUED == <<SPACE_CHARACTER>> \o LINE_BEGIN

\* the logical lines of the records of a file
FileRecords ==
    { MinimalRecord,
      <<LINE_BEGIN, LINE_VERSION, LINE_FN, LINE_N, LINE_TEL, LINE_END>>,
      <<LINE_BEGIN, LINE_VERSION21, LINE_FN, LINE_N, LINE_END>>,
      <<LINE_BEGIN, LINE_VERSION, LINE_N, LINE_END>>,
      <<LINE_BEGIN, LINE_VERSION, LINE_FN, LINE_N, LINE_URL, LINE_END>>,
      <<LINE_BEGIN, LINE_VERSION, LINE_FN, LINE_N, LINE_END_LOWER>>,
      <<LINE_BEGIN_CONTINUED, LINE_VERSION, LINE_FN, LINE_N, LINE_END>> }

\* the END line written in other ways: in mixed case, folded
LINE_END_MIXED == <<"E","N","D",":","v","c","a","r","d">>
LINE_END_FOLDED ==
    <<"E","N","D",":","V","C">> \o NEWLINE_CHARACTERS \o <<SPACE_CHARACTER,"A","R","D">>
\* the minimal record with a group in front of every line
GroupedRecord == [k \in DOMAIN MinimalRecord |-> <<"g","r","p",".">> \o MinimalRecord[k]]

\* what a file ends with after its records: nothing, the start of a record,
\* an empty line, an END line without its line end, a record whose END line
\* is in mixed case, or folded, or has a group
Trailers ==
    { <<>>,
      LINE_BEGIN \o NEWLINE_CHARACTERS \o LINE_VERSION \o NEWLINE_CHARACTERS,
      NEWLINE_CHARACTERS,
      LINE_END,
      Edited(<<LINE_BEGIN, LINE_VERSION, LINE_FN, LINE_N, LINE_END_MIXED>>, NoEdit),
      Edited(<<LINE_BEGIN, LINE_VERSION, LINE_FN, LINE_N, LINE_END_FOLDED>>, NoEdit),
      Edited(GroupedRecord, NoEdit) }

MaxRecords == 2

Files ==
    UNION { [records : [1..n -> FileRecords], trailer : Trailers] : n \in 0..MaxRecords }

FileText(file) ==
    Join([r \in DOMAIN file.records |-> Edited(file.records[r], NoEdit)], <<>>)
        \o file.trailer

filename == "file.vcf"

\* str(error): a text that is never empty and that tells the error
str_error(error) == <<[item |-> "error", error |-> error, line_count |-> 0]>>

\* f"Could not process entire {filename} - {line_count} lines remain"
lines_remain(line_count) ==
    <<[item |-> "lines remain", error |-> NoError, line_count |-> line_count]>>

\* vcard_text != "", whatever the result
text_is_left(vcard_text, result_) == Len(vcard_text) # 0

\* vcard_text != "" and result != "": the second test turned around
text_is_left_and_error(vcard_text, result_) == Len(vcard_text) # 0 /\ Len(result_) # 0

\* vcard_text != "" and result == ""
text_is_left_and_no_error(vcard_text, result_) == Len(vcard_text) # 0 /\ Len(result_) = 0

Init ==
    /\ pc = "loop"
    /\ IdleSplit
    /\ IdleProperty
    /\ IdleVCard
    /\ vf_file \in Files
    /\ vf_contents = splitlines(FileText(vf_file), TRUE)
    /\ vf_index = 0
    /\ vf_vcard_text = <<>>
    /\ vf_result = <<>>
    /\ vf_calls = <<>>

\* the line of this turn of the loop, and vcard_text += line
ThisLine == vf_contents[vf_index + 1]
ThisText == vf_vcard_text \o ThisLine
\* the test for the END line without regard to case
IsEndLine_any_case(line) == upper(line) = LINE_END \o NEWLINE_CHARACTERS
IsEndLine(line) == line = LINE_END \o NEWLINE_CHARACTERS
ThisCall ==
    [vcard_text |-> ThisText, line_index |-> vf_index,
     outcome |-> validate_vcard_text(ThisText, filename, vf_index)]

\* a turn of the loop on a line that does not end a record
ReadLine ==
    /\ pc = "loop"
    /\ vf_index < Len(vf_contents)
    /\ ~IsEndLine(ThisLine)
    /\ vf_vcard_text' = ThisText
    /\ vf_index' = vf_index + 1
    /\ UNCHANGED <<pc, vf_contents, vf_result, vf_calls, vf_file,
                   splitVars, propertyVars, vcardVars>>

\* a turn of the loop on END:VCARD, the record is valid
ValidateReturns ==
    /\ pc = "loop"
    /\ vf_index < Len(vf_contents)
    /\ IsEndLine(ThisLine)
    /\ LET returns(call) == ~call.outcome.raised /\ vf_calls' = Append(vf_calls, call)
       IN  returns(ThisCall)
    /\ vf_vcard_text' = <<>>
    /\ vf_index' = vf_index + 1
    /\ UNCHANGED <<pc, vf_contents, vf_result, vf_file,
                   splitVars, propertyVars, vcardVars>>

\* a turn of the loop on END:VCARD, the record is refused: except VCardError
ValidateRaises ==
    /\ pc = "loop"
    /\ vf_index < Len(vf_contents)
    /\ IsEndLine(ThisLine)
    /\ LET raises(call) ==
               /\ call.outcome.raised
               /\ call.outcome.error.kind \in VCardErrorKinds
               /\ vf_calls' = Append(vf_calls, call)
               /\ vf_result' = vf_result \o str_error(call.outcome.error)
       IN  raises(ThisCall)
    /\ vf_vcard_text' = ThisText
    /\ pc' = "after loop"
    /\ UNCHANGED <<vf_index, vf_contents, vf_file, splitVars, propertyVars, vcardVars>>

\* a turn of the loop on END:VCARD, the validation raises an error that is
\* not a VCardError: validate_file raises it
ValidatePassesOn ==
    /\ pc = "loop"
    /\ vf_index < Len(vf_contents)
    /\ IsEndLine(ThisLine)
    /\ LET raises(call) ==
               /\ call.outcome.raised
               /\ call.outcome.error.kind \notin VCardErrorKinds
               /\ vf_calls' = Append(vf_calls, call)
       IN  raises(ThisCall)
    /\ vf_vcard_text' = ThisText
    /\ pc' = "raised"
    /\ UNCHANGED <<vf_index, vf_result, vf_contents, vf_file,
                   splitVars, propertyVars, vcardVars>>

\* the loop has gone through the contents
LoopEnds ==
    /\ pc = "loop"
    /\ vf_index = Len(vf_contents)
    /\ pc' = "after loop"
    /\ UNCHANGED <<fileVars, splitVars, propertyVars, vcardVars>>

LinesRemain ==
    /\ pc = "after loop"
    /\ text_is_left_and_no_error(vf_vcard_text, vf_result)
    /\ vf_result' = vf_result \o lines_remain(Len(splitlines(vf_vcard_text, FALSE)))
    /\ pc' = "returned"
    /\ UNCHANGED <<vf_contents, vf_index, vf_vcard_text, vf_calls, vf_file,
                   splitVars, propertyVars, vcardVars>>

Return ==
    /\ pc = "after loop"
    /\ ~text_is_left_and_no_error(vf_vcard_text, vf_result)
    /\ pc' = "returned"
    /\ UNCHANGED <<fileVars, splitVars, propertyVars, vcardVars>>

Next ==
    \/ ReadLine
    \/ ValidateReturns \/ ValidateRaises \/ ValidatePassesOn
    \/ LoopEnds
    \/ LinesRemain \/ Return

Spec == Init /\ [][Next]_vars

-----------------------------------------------------------------------------
(* The claims                                                               *)

Finished(at) == pc \in {at \o " returned", at \o " raised"}

\* the parameters and the values that the handler of the property is given
DecomposedParameters ==
    IF Len(prop_parts.params) = 0 THEN Returns(<<>>)
    ELSE get_vcard_property_params(Tail(prop_parts.params))
DecomposedValues == get_vcard_property_values(prop_parts.value \o NEWLINE_CHARACTERS)
Decomposed == ~DecomposedParameters.raised /\ ~DecomposedValues.raised
TypeValues ==
    UNION { DecomposedParameters.value[i].values :
              i \in { j \in DOMAIN DecomposedParameters.value :
                        DecomposedParameters.value[j].name = TYPE } }
OnlyTypeParameters ==
    /\ Len(DecomposedParameters.value) > 0
    /\ \A i \in DOMAIN DecomposedParameters.value : DecomposedParameters.value[i].name = TYPE
IsProperty(property_name) == upper(prop_parts.name) = property_name

\* C5: a VERSION line is accepted exactly when it has no parameters, exactly
\* one value, exactly one sub-value in that value, and that sub-value is
\* the text 3.0
C5_VersionAcceptedIff ==
    (Finished("property") /\ IsProperty(<<"V","E","R","S","I","O","N">>)) =>
        (pc = "property returned" <=>
            /\ Decomposed
            /\ Len(DecomposedParameters.value) = 0
            /\ Len(DecomposedValues.value) = 1
            /\ Len(DecomposedValues.value[1]) = 1
            /\ DecomposedValues.value[1][1] = <<"3", ".", "0">>)

\* C9: a TEL line is accepted only when every TYPE value is, whatever its
\* case, in the telephone vocabulary, and a TEL line whose only parameters
\* are TYPE parameters with a value outside it fails with a value error
\* (TEL;TYPE=cell passes, TEL;TYPE=bogus fails); an EMAIL line whose only
\* parameters are TYPE parameters with a value outside the e-mail
\* vocabulary is still accepted, with the warning WARN_INVALID_EMAIL_TYPE
C9_TelTypeIsCheckedEmailTypeWarns ==
    Finished("property") =>
        /\ (IsProperty(<<"T","E","L">>) /\ pc = "property returned") =>
               \A v \in TypeValues : lower(v) \in TELEPHONE_TYPE_VALUES
        /\ (IsProperty(<<"T","E","L">>) /\ Decomposed /\ OnlyTypeParameters
              /\ \E v \in TypeValues : lower(v) \notin TELEPHONE_TYPE_VALUES) =>
               /\ pc = "property raised"
               /\ prop_outcome.error.kind = "VCardValueError"
               /\ prop_outcome.error.note = "NOTE_INVALID_PARAMETER_VALUE"
        /\ (IsProperty(<<"T","E","L">>) /\ prop_parts.params = <<";","T","Y","P","E","=","c","e","l","l">>
              /\ prop_parts.value = <<"+","1","-","5","5","5","-","0","1","0","0">>) =>
               pc = "property returned"
        /\ (IsProperty(<<"E","M","A","I","L">>) /\ Decomposed /\ OnlyTypeParameters
              /\ (\E v \in TypeValues : lower(v) \notin EMAIL_TYPE_VALUES)
              /\ prop_parts.value = <<"a","@","b",".","c">>) =>
               /\ pc = "property returned"
               /\ \E i \in DOMAIN prop_outcome.warnings :
                      prop_outcome.warnings[i] = "WARN_INVALID_EMAIL_TYPE"

\* TEL;TYPE=bogus has been refused and EMAIL;TYPE=bogus has been accepted
C9_WitnessTel ==
    /\ pc = "property raised" /\ IsProperty(<<"T","E","L">>)
    /\ prop_parts.params = <<";","T","Y","P","E","=","b","o","g","u","s">>
    /\ prop_parts.value = <<"+","1","-","5","5","5","-","0","1","0","0">>
    /\ prop_outcome.error.kind = "VCardValueError"

\* the record as written before the edit, and what the constructor makes of it
BaseText == Edited(vc_base, NoEdit)
Accepted(outcome) == ~outcome.raised
SameVerdict(a, b) == a.raised = b.raised /\ a.error.kind = b.error.kind
NamesIn(lines) == [k \in DOMAIN lines |-> upper(Head(split_unescaped(lines[k], ":")))]
Occurrences(names, property_name) == Cardinality({ k \in DOMAIN names : names[k] = property_name })

\* C4: when a record that is valid has one of BEGIN, END, FN, N, VERSION on
\* one line only, the record without that line is refused with an
\* item-count error, missing property, that names the property; and a
\* record is accepted only with each of the five names among its properties
C4_MandatoryProperties ==
    /\ (/\ pc \in {"VCard returned", "VCard raised"}
        /\ vc_edit.kind = "drop"
        /\ Accepted(VCard(BaseText))
        /\ NamesIn(vc_base)[vc_edit.line] \in { MANDATORY_PROPERTIES[m] : m \in DOMAIN MANDATORY_PROPERTIES }
        /\ Occurrences(NamesIn(vc_base), NamesIn(vc_base)[vc_edit.line]) = 1) =>
           /\ pc = "VCard raised"
           /\ vc_outcome.error.kind = "VCardItemCountError"
           /\ vc_outcome.error.note = "NOTE_MISSING_PROPERTY"
           /\ vc_outcome.error.context.Property = {NamesIn(vc_base)[vc_edit.line]}
    /\ pc = "VCard returned" =>
           \A m \in DOMAIN MANDATORY_PROPERTIES :
               \E k \in DOMAIN vc_properties :
                   upper(vc_properties[k].name) = MANDATORY_PROPERTIES[m]

\* the record without its END line has been refused for the missing END
C4_Witness ==
    /\ pc = "VCard raised"
    /\ vc_edit.kind = "drop"
    /\ vc_base = MinimalRecord
    /\ vc_base[vc_edit.line] = LINE_END
    /\ vc_outcome.error.context.Property = {<<"E","N","D">>}

\* C6: a record with one logical line written as two physical lines, the
\* first ended by CRLF and the second starting with one space, is unfolded
\* to the lines of the record with the line in one piece, and is accepted
\* or refused, with the same kind of error, as that record is
C6_FoldingChangesNothing ==
    vc_edit.kind = "fold" =>
        /\ pc = "get_vcard_group" =>
               vc_lines = unfold_vcard_lines(splitlines(BaseText, TRUE)).value
        /\ pc \in {"VCard returned", "VCard raised"} =>
               SameVerdict(vc_outcome, VCard(BaseText))

\* a record with its FN line folded in the middle has been unfolded
C6_Witness ==
    /\ pc = "get_vcard_group"
    /\ vc_edit.kind = "fold"
    /\ vc_base[vc_edit.line] = LINE_FN
    /\ vc_edit.at = 7
    /\ Len(splitlines(vc_text, TRUE)) = Len(vc_lines) + 1

\* a folded record has been refused as the record in one piece is
C6_WitnessRefused ==
    /\ pc = "VCard raised"
    /\ vc_edit.kind = "fold"
    /\ vc_edit.at \in 1..(Len(vc_base[vc_edit.line]) - 1)

AllGrouped(prefix) ==
    /\ vc_edit.kind = "group"
    /\ \A k \in DOMAIN vc_edit.prefixes : vc_edit.prefixes[k] = prefix

\* C7: a record with grp. in front of every logical line has the group grp,
\* its lines after remove_vcard_groups are the lines of the record without
\* the prefixes, and it is accepted exactly when that record is
C7_GroupedValidatesAsUngrouped ==
    AllGrouped(<<"g","r","p",".">>) =>
        /\ pc \in {"remove_vcard_groups", "get_vcard_properties", "VCard returned"} =>
               vc_group = {<<"g","r","p">>}
        /\ pc = "get_vcard_properties" =>
               vc_lines = [k \in DOMAIN vc_base |-> vc_base[k] \o NEWLINE_CHARACTERS]
        /\ pc \in {"VCard returned", "VCard raised"} =>
               (pc = "VCard returned" <=> Accepted(VCard(BaseText)))

\* the numbers n such that the line starts with n identifier characters
\* followed by a dot: the line has a group prefix when there is one
PrefixLengths(line) ==
    { n \in 0..(Len(line) - 1) :
        line[n + 1] = "." /\ \A i \in 1..n : line[i] \in ID_CHARACTERS }
HasPrefix(line) == PrefixLengths(line) # {}
Token(line) == SliceTo(line, CHOOSE n \in PrefixLengths(line) : TRUE)
\* the lines before the k-th one agree with the first line
AgreeBefore(lines, k) ==
    \A i \in 1..(k - 1) :
        /\ HasPrefix(lines[i]) = HasPrefix(lines[1])
        /\ HasPrefix(lines[1]) => Token(lines[i]) = Token(lines[1])

\* C8: get_vcard_group returns exactly when every logical line starts with
\* the same non-empty token and a dot, or none starts with a token (empty
\* or not) and a dot.  With a group on the first line, the first line that
\* differs fails with the line error NOTE_MISSING_GROUP when it has no
\* prefix and with a name error when its token is another one; without a
\* group on the first line, the first line with a prefix fails with a
\* name error; a first line starting with a dot fails with a line error
C8_GroupOfARecord ==
    (pc = "remove_vcard_groups" \/ (pc = "VCard raised" /\ vc_raised_in = "get_vcard_group")) =>
        /\ pc = "remove_vcard_groups" <=>
               \/ \A k \in DOMAIN vc_lines :
                      /\ HasPrefix(vc_lines[k])
                      /\ Token(vc_lines[k]) = Token(vc_lines[1])
                      /\ Len(Token(vc_lines[k])) > 0
               \/ \A k \in DOMAIN vc_lines : ~HasPrefix(vc_lines[k])
        /\ pc = "remove_vcard_groups" =>
               vc_group = IF HasPrefix(vc_lines[1]) THEN {Token(vc_lines[1])} ELSE {}
        /\ (HasPrefix(vc_lines[1]) /\ Len(Token(vc_lines[1])) = 0) =>
               /\ vc_outcome.error.kind = "VCardLineError"
               /\ vc_outcome.error.note = "NOTE_DOT_AT_LINE_START"
        /\ \A k \in DOMAIN vc_lines :
               (AgreeBefore(vc_lines, k) /\ HasPrefix(vc_lines[1])
                  /\ Len(Token(vc_lines[1])) > 0) =>
                   /\ ~HasPrefix(vc_lines[k]) =>
                          /\ vc_outcome.error.kind = "VCardLineError"
                          /\ vc_outcome.error.note = "NOTE_MISSING_GROUP"
                          /\ vc_outcome.error.context.FileLine = {k}
                   /\ (HasPrefix(vc_lines[k]) /\ Token(vc_lines[k]) # Token(vc_lines[1])) =>
                          /\ vc_outcome.error.kind = "VCardNameError"
                          /\ vc_outcome.error.note = "NOTE_MISMATCH_GROUP"
                          /\ vc_outcome.error.context.FileLine = {k}
        /\ \A k \in DOMAIN vc_lines :
               (AgreeBefore(vc_lines, k) /\ ~HasPrefix(vc_lines[1]) /\ HasPrefix(vc_lines[k])) =>
                   /\ vc_outcome.error.kind = "VCardNameError"
                   /\ vc_outcome.error.note = "NOTE_MISMATCH_GROUP"
                   /\ vc_outcome.error.context.FileLine = {k}

\* a record with a group on its first lines and none on a later line has
\* been refused for the missing group
C8_Witness ==
    /\ pc = "VCard raised" /\ vc_raised_in = "get_vcard_group"
    /\ vc_outcome.error.note = "NOTE_MISSING_GROUP"
    /\ vc_outcome.error.context.FileLine = {3}
    /\ HasPrefix(vc_lines[1]) /\ HasPrefix(vc_lines[2]) /\ ~HasPrefix(vc_lines[3])

\* the group of a record with the same group on every line has been returned
C8_WitnessReturned ==
    /\ pc = "remove_vcard_groups"
    /\ vc_group = {<<"g","2">>}

\* C3: on the file of the five lines BEGIN:VCARD, VERSION:3.0, FN:John Doe,
\* N:Doe;John;;; and END:VCARD, each ended by CRLF, validate_file returns
\* the empty report, the one record having been built without an error
C3_MinimalFileIsAccepted ==
    (pc = "returned" /\ vf_file = [records |-> <<MinimalRecord>>, trailer |-> <<>>]) =>
        /\ vf_result = <<>>
        /\ Len(vf_calls) = 1
        /\ ~vf_calls[1].outcome.raised
        /\ vf_calls[1].vcard_text = FileText(vf_file)

\* validate_file has returned on the minimal file, of five lines
C3_Witness ==
    /\ pc = "returned"
    /\ vf_contents = [k \in 1..5 |-> MinimalRecord[k] \o NEWLINE_CHARACTERS]
    /\ vf_index = 5
    /\ Len(vf_calls) = 1

RecordText(record) == Edited(record, NoEdit)
Complete(record) == record[Len(record)] = LINE_END
Valid(record) == ~VCard(RecordText(record)).raised
Invalid(record) ==
    /\ VCard(RecordText(record)).raised
    /\ VCard(RecordText(record)).error.kind \in VCardErrorKinds
TwoRecords ==
    /\ Len(vf_file.records) = 2
    /\ vf_file.trailer = <<>>
    /\ Complete(vf_file.records[1])
    /\ Complete(vf_file.records[2])

\* the indexes, in the file, of the lines of the second of two records
SecondBlock ==
    Len(vf_file.records[1]) .. (Len(vf_file.records[1]) + Len(vf_file.records[2]) - 1)

LastEndLine ==
    Max({0} \cup { i \in 1..Len(vf_contents) : IsEndLine(vf_contents[i]) })
LinesAfterLastEnd == Len(vf_contents) - LastEndLine
NoRecordRefused == \A c \in 1..Len(vf_calls) : ~vf_calls[c].outcome.raised

\* C12: when validate_file has gone through a file whose records were all
\* valid and lines are left after the last END:VCARD line (or the file has no
\* such line), the result is the lines-remain message with the number of
\* these lines, and is not empty
C12_LinesRemainAreReported ==
    (pc = "returned" /\ NoRecordRefused /\ LinesAfterLastEnd > 0) =>
        /\ vf_result = lines_remain(LinesAfterLastEnd)
        /\ vf_result # <<>>

\* a valid record followed by the first two lines of another has been
\* reported with 2 lines remaining
C12_Witness ==
    /\ pc = "returned"
    /\ Len(vf_calls) = 1
    /\ NoRecordRefused
    /\ LinesAfterLastEnd = 2
    /\ vf_result = lines_remain(2)

\* C13: a text that is empty is refused with the empty-vCard error and is
\* never reported as valid: on a file without content, validate_file
\* returns that error and not the empty result
C13_EmptyIsNeverValid ==
    (pc = "returned" /\ Len(FileText(vf_file)) = 0) =>
        /\ Len(vf_result) = 1
        /\ vf_result[1].item = "error"
        /\ vf_result[1].error.note = "NOTE_EMPTY_VCARD"

\* the line that says the same without the cause of the warning
QuietLine(line) ==
    CASE line = LINE_TEL_VOICE -> LINE_TEL
      [] line = LINE_EMAIL_BOGUS -> LINE_EMAIL
      [] line = LINE_N_NAMES -> LINE_N
      [] line = LINE_NOTE_LONG -> LINE_NOTE
      [] OTHER -> line
Quiet(record) == [k \in DOMAIN record |-> QuietLine(record[k])]
QuietOutcome == VCard(Edited(Quiet(vc_base), vc_edit))

\* C14: warnings do not change the verdict. A record with the cause of a
\* warning in it (a default TYPE value, an unknown EMAIL TYPE, a name of
\* several words, a long line), whole or with a line left out or ended by LF
\* alone, is accepted or refused, with the same kind of error, as the record
\* without that cause, which warns of nothing; whole, it is accepted with
\* its warning; and a record whose folding made the unfolding warn (short or
\* empty folded line) has the verdict of the record unfolded
C14_WarningsLeaveTheVerdict ==
    Finished("VCard") =>
        /\ (vc_base \in WarningRecords /\ vc_edit.kind \in {"none", "drop", "newline"}) =>
               /\ SameVerdict(vc_outcome, QuietOutcome)
               /\ vc_edit.kind = "none" =>
                      /\ pc = "VCard returned"
                      /\ vc_outcome.warnings # <<>>
                      /\ QuietOutcome.warnings = <<>>
        /\ (vc_edit.kind = "fold" /\ vc_outcome.warnings # <<>>) =>
               SameVerdict(vc_outcome, VCard(BaseText))

\* the record with EMAIL;TYPE=bogus has been accepted with the warning of
\* the unknown type
C14_Witness ==
    /\ pc = "VCard returned"
    /\ vc_edit.kind = "none"
    /\ \E k \in DOMAIN vc_base : vc_base[k] = LINE_EMAIL_BOGUS
    /\ vc_outcome.warnings = <<"WARN_INVALID_EMAIL_TYPE">>

\* the long line folded at its end: an empty folded line after a line that is
\* long has been warned of, and the record accepted
C14_WitnessEmptyFoldedLine ==
    /\ pc = "VCard returned"
    /\ vc_edit.kind = "fold"
    /\ vc_outcome.warnings = <<"Long line", "Empty folded line">>

\* the physical lines that unfold_vcard_lines is given
RawLines == splitlines(vc_text, TRUE)
\* a line beginning with a space or a tab
BeginsWithWhitespace(line) == Len(line) >= 1 /\ line[1] \in SPACE_CHARACTERS
\* the physical lines that start a logical line, in their order
RECURSIVE Starters(_)
Starters(lines) ==
    IF Len(lines) = 0 THEN <<>>
    ELSE IF BeginsWithWhitespace(Head(lines)) THEN Starters(Tail(lines))
    ELSE <<Head(lines)>> \o Starters(Tail(lines))
UnfoldFinished ==
    \/ pc = "get_vcard_group"
    \/ pc = "VCard raised" /\ vc_raised_in = "unfold_vcard_lines"
WithoutLineEnd(line) == SliceTo(line, Len(line) - Len(NEWLINE_CHARACTERS))

\* C15: unfold_vcard_lines raises a line error exactly when a physical line
\* does not end with CRLF or the first line is a continuation (begins with a
\* space or a tab); otherwise it returns one logical line for each physical
\* line that is not a continuation, in their order, each ending with CRLF
C15_UnfoldFailsOrKeepsTheLines ==
    UnfoldFinished =>
        /\ pc = "VCard raised" <=>
               \/ \E k \in DOMAIN RawLines : ~endswith(RawLines[k], NEWLINE_CHARACTERS)
               \/ BeginsWithWhitespace(RawLines[1])
        /\ pc = "VCard raised" => vc_outcome.error.kind = "VCardLineError"
        /\ pc = "get_vcard_group" =>
               /\ Len(vc_lines) = Len(Starters(RawLines))
               /\ \A k \in DOMAIN vc_lines :
                      /\ endswith(vc_lines[k], NEWLINE_CHARACTERS)
                      /\ startswith(vc_lines[k], WithoutLineEnd(Starters(RawLines)[k]))

\* the logical lines of physical lines that all end with CRLF and do not
\* start with a continuation, by the rule of the folding: a line beginning
\* with a space or a tab goes, without that character, onto the end of the
\* logical line before it, in the place of the line end
RECURSIVE Continued(_, _)
Continued(lines, logical) ==
    IF Len(lines) = 0 THEN logical
    ELSE IF BeginsWithWhitespace(Head(lines))
    THEN Continued(Tail(lines),
                   [logical EXCEPT ![Len(logical)] =
                        WithoutLineEnd(@) \o SliceFrom(Head(lines), 1)])
    ELSE Continued(Tail(lines), Append(logical, Head(lines)))

\* C16: a physical line beginning with one space or with a tab is a
\* continuation: it makes no logical line of its own, the logical line before
\* it loses its line end and gets the rest of the continuation line
C16_SpaceOrTabContinues ==
    pc = "get_vcard_group" => vc_lines = Continued(RawLines, <<>>)

\* the 0-based indices of the unescaped colons of the line, and the text
\* after the first of them
Colons == UnescapedIndices(prop_line, ":")
AfterFirstColon == SliceFrom(prop_line, Min(Colons) + 1)

\* C17: a line without an unescaped colon is refused with the item-count
\* error of the missing value string; a line with one or more is not, and
\* when it is accepted its values are those of all the text after the first
\* unescaped colon, later colons included; a NOTE or TEL line is accepted
\* however many colons its value has
C17_SplitAtTheFirstColon ==
    Finished("property") =>
        /\ Colons = {} =>
               /\ pc = "property raised"
               /\ prop_outcome.error.kind = "VCardItemCountError"
               /\ prop_outcome.error.note = "NOTE_MISSING_VALUE_STRING"
        /\ Colons # {} =>
               /\ prop_outcome.error.note # "NOTE_MISSING_VALUE_STRING"
               /\ pc = "property returned" =>
                      prop_outcome.value.values =
                          get_vcard_property_values(AfterFirstColon).value
        /\ ( /\ Cardinality(Colons) >= 2
             /\ prop_parts.name \in {<<"N","O","T","E">>, <<"T","E","L">>}
             /\ prop_parts.colon = <<":">>
             /\ prop_parts.params = <<>> ) => pc = "property returned"

\* NOTE:a:b:c has been accepted with the one value a:b:c
C17_Witness ==
    /\ pc = "property returned"
    /\ Cardinality(Colons) = 3
    /\ prop_outcome.value.values = << << <<"a",":","b",":","c">> >> >>

\* a line whose only colon is escaped has been refused
C17_WitnessNoColon ==
    /\ pc = "property raised"
    /\ Colons = {}
    /\ \E k \in DOMAIN prop_line : prop_line[k] = ":"

\* the line has one parameter spec: its text, the 0-based indices of its
\* unescaped equals signs, its name and its values string by the first one
OneSpec ==
    /\ prop_parts \in [name : ParameterNamesOfLines, params : EqualsParameterTexts,
                        value : {<<"x">>}, colon : {<<":">>}]
SpecText == Tail(prop_parts.params)
EqualsSigns == UnescapedIndices(SpecText, "=")
SpecName == SliceTo(SpecText, Min(EqualsSigns))
SpecValues == SliceFrom(SpecText, Min(EqualsSigns) + 1)

\* C18: a parameter spec without an unescaped equals sign is refused with
\* an item-count error; a spec with two or more is split at the first, the
\* later ones belong to the values string, and it is not refused with an
\* item-count error: on a line without a rule it ends as the spec would
\* whose name and whose values string these are
C18_SplitAtTheFirstEquals ==
    (Finished("property") /\ OneSpec) =>
        /\ EqualsSigns = {} =>
               /\ pc = "property raised"
               /\ prop_outcome.error.kind = "VCardItemCountError"
        /\ Cardinality(EqualsSigns) >= 2 =>
               /\ prop_outcome.error.kind # "VCardItemCountError"
               /\ prop_parts.name = <<"N","O","T","E">> =>
                      /\ prop_outcome.raised =
                             ( \/ get_vcard_property_param_values(SpecValues).raised
                               \/ ~MatchPlus(SpecName, ID_CHARACTERS) )
                      /\ pc = "property returned" =>
                             prop_outcome.value.parameters =
                                 << [name |-> upper(SpecName),
                                     values |-> get_vcard_property_param_values(SpecValues).value] >>

\* the line, a NOTE or a TEL (no rule of theirs touches the parameters),
\* has one to MaxSpecs of the parameter specs; read plainly (there
\* is no backslash in them): the specs, the name of a spec in upper case,
\* the values of a spec, and the map they amount to
Merged ==
    /\ prop_parts.params \in MergedParameterTexts
    /\ prop_parts.name \in ParameterNamesOfLines
    /\ prop_parts.colon = <<":">>
PlainSpecs == SeqToSet(split(Tail(prop_parts.params), ";"))
PlainName(spec) == upper(Head(split(spec, "=")))
PlainValues(spec) == SeqToSet(split(split(spec, "=")[2], ","))
ExpectedNames == { PlainName(spec) : spec \in PlainSpecs }
ExpectedValues(name) ==
    UNION { PlainValues(spec) : spec \in { t \in PlainSpecs : PlainName(t) = name } }
TYPE_WORK_VOICE ==
    << [name |-> TYPE, values |-> {<<"W","O","R","K">>, <<"V","O","I","C","E">>}] >>
TheFourExamples ==
    { SpecsJoined(<< <<"T","Y","P","E","=","W","O","R","K">>,
                     <<"T","Y","P","E","=","W","O","R","K",",","V","O","I","C","E">> >>),
      SpecsJoined(<< <<"T","Y","P","E","=","V","O","I","C","E",",","W","O","R","K">> >>),
      SpecsJoined(<< <<"T","Y","P","E","=","V","O","I","C","E">>,
                     <<"t","y","p","e","=","W","O","R","K">> >>),
      SpecsJoined(<< <<"T","Y","P","E","=","W","O","R","K",",","V","O","I","C","E",",","W","O","R","K">> >>) }

\* C19: the parameters of a line are a map from the names in upper case to
\* the union of the values written with the name, whatever the order, the
\* repetition and the case of the names: one entry for each name, with all
\* its values; the four ways of writing TYPE with WORK and VOICE give the
\* one entry TYPE -> {WORK, VOICE}
C19_ParametersAreMerged ==
    (Finished("property") /\ Merged) =>
        /\ prop_parts.name = <<"N","O","T","E">> => pc = "property returned"
        /\ pc = "property returned" =>
               /\ SeqToSet(prop_outcome.value.parameters) =
                      { [name |-> n, values |-> ExpectedValues(n)] : n \in ExpectedNames }
               /\ Len(prop_outcome.value.parameters) = Cardinality(ExpectedNames)
               /\ prop_parts.params \in TheFourExamples =>
                      prop_outcome.value.parameters = TYPE_WORK_VOICE

\* TYPE=VOICE;type=WORK on a TEL line has given TYPE -> {WORK, VOICE}
C19_Witness ==
    /\ pc = "property returned"
    /\ prop_parts.name = <<"T","E","L">>
    /\ prop_parts.params =
           SpecsJoined(<< <<"T","Y","P","E","=","V","O","I","C","E">>,
                          <<"t","y","p","e","=","W","O","R","K">> >>)
    /\ prop_outcome.value.parameters = TYPE_WORK_VOICE

\* the property that validate_vcard_property is given for the line, and
\* what the rule registered for its name makes of it
HasRule == upper(prop_parts.name) \in REGISTERED_PROPERTIES
Parsed ==
    [name |-> prop_parts.name, values |-> DecomposedValues.value,
     parameters |-> DecomposedParameters.value]
RuleOutcome == handle(upper(prop_parts.name), Parsed)

C20_WitnessRule ==
    /\ pc = "property raised"
    /\ Decomposed
    /\ prop_parts.colon = <<":">>
    /\ prop_outcome.error.context.Property = {<<"T","E","L">>}

\* what the claims say of the parameters and of the values of a line
IsTextParameter(parameter) == ~validate_text_parameter(parameter).raised
AllTextParameters ==
    \A i \in DOMAIN DecomposedParameters.value : IsTextParameter(DecomposedParameters.value[i])
OneTextValue ==
    /\ Len(DecomposedValues.value) = 1
    /\ Len(DecomposedValues.value[1]) = 1
    /\ ~validate_text_value(DecomposedValues.value[1][1]).raised

\* C21: a line named FN, TITLE, ROLE or MAILER is accepted exactly when each
\* of its parameters is a valid text parameter and it has one value with one
\* sub-value that is valid text; with LANGUAGE=en and the value x it is
\* accepted
C21_OneRuleForTheTextProperties ==
    (Finished("property") /\ upper(prop_parts.name) \in TextNames
       /\ prop_parts.colon = <<":">> /\ Decomposed) =>
        /\ pc = "property returned" <=> (AllTextParameters /\ OneTextValue)
        /\ (prop_parts.params = <<";","L","A","N","G","U","A","G","E","=","e","n">> /\ prop_parts.value = <<"x">>) =>
               pc = "property returned"

\* the line is one whose value is given as a URI: URL without parameters,
\* AGENT without parameters or with VALUE=uri, and SOURCE, PHOTO or LOGO with
\* VALUE=uri
GivenAsUri ==
    /\ Len(DecomposedParameters.value) = 1
    /\ DecomposedParameters.value[1] = [name |-> VALUE, values |-> {uri}]
UriLine ==
    \/ IsProperty(<<"U","R","L">>) /\ Len(DecomposedParameters.value) = 0
    \/ IsProperty(<<"A","G","E","N","T">>)
          /\ (Len(DecomposedParameters.value) = 0 \/ GivenAsUri)
    \/ upper(prop_parts.name) \in {<<"S","O","U","R","C","E">>, <<"P","H","O","T","O">>,
                                     <<"L","O","G","O">>}
          /\ GivenAsUri
\* the value has no scheme, or neither a network nor a path component
NoSchemeOrNoPlace(s) ==
    /\ ~urlparse(s).invalid
    /\ \/ urlparse(s).scheme = <<>>
       \/ urlparse(s).netloc = <<>> /\ urlparse(s).path = <<>>

\* C22: a URL, SOURCE or AGENT line, or a PHOTO or LOGO line given as a URI,
\* whose value has no scheme, or neither a network nor a path component, is
\* refused with a value error
C22_ValueIsCheckedAsUri ==
    (Finished("property") /\ prop_parts.colon = <<":">> /\ Decomposed /\ UriLine
       /\ NoSchemeOrNoPlace(prop_parts.value)) =>
        /\ pc = "property raised"
        /\ prop_outcome.error.kind = "VCardValueError"

\* the values written for a parameter name of the line, and the names
ParameterValues(param_name) ==
    UNION { DecomposedParameters.value[i].values :
              i \in { j \in DOMAIN DecomposedParameters.value :
                        DecomposedParameters.value[j].name = param_name } }
NamesOfParameters == ParameterNames(DecomposedParameters.value)
\* the parameters of the line in every order
Orders(parameters) ==
    { [i \in DOMAIN parameters |-> parameters[f[i]]] :
        f \in { g \in [DOMAIN parameters -> DOMAIN parameters] :
                  \A i, j \in DOMAIN parameters : g[i] = g[j] => i = j } }

\* C23: a PHOTO or LOGO line is accepted exactly when it has a parameter,
\* one value with one sub-value, ENCODING (if there) is {b} without VALUE,
\* VALUE (if there) is {uri} with a sub-value that is a URI, TYPE comes only
\* with ENCODING, and there is no other parameter name; the rule gives the
\* same verdict for the parameters in every other order
C23_PhotoLogoAcceptedIff ==
    (Finished("property") /\ upper(prop_parts.name) \in PhotoNames
       /\ prop_parts.colon = <<":">> /\ Decomposed) =>
        /\ pc = "property returned" <=>
               /\ Len(DecomposedParameters.value) >= 1
               /\ Len(DecomposedValues.value) = 1
               /\ Len(DecomposedValues.value[1]) = 1
               /\ ENCODING \in NamesOfParameters =>
                      ParameterValues(ENCODING) = {<<"b">>} /\ VALUE \notin NamesOfParameters
               /\ VALUE \in NamesOfParameters =>
                      /\ ParameterValues(VALUE) = {uri}
                      /\ ~validate_uri(DecomposedValues.value[1][1]).raised
               /\ TYPE \in NamesOfParameters => ENCODING \in NamesOfParameters
               /\ NamesOfParameters \subseteq {ENCODING, TYPE, VALUE}
        /\ \A parameters \in Orders(DecomposedParameters.value) :
               handle(upper(prop_parts.name), [Parsed EXCEPT !.parameters = parameters]).raised
                   = prop_outcome.raised

\* PHOTO with TYPE written before ENCODING=b has been accepted
C23_Witness ==
    /\ pc = "property returned"
    /\ prop_parts.name = <<"P","H","O","T","O">>
    /\ prop_parts.params = SpecsJoined(<< <<"T","Y","P","E","=","J","P","E","G">>, <<"E","N","C","O","D","I","N","G","=","b">> >>)

\* LOGO with VALUE=uri written before ENCODING=b has been refused
C23_WitnessRefused ==
    /\ pc = "property raised"
    /\ prop_parts.name = <<"L","O","G","O">>
    /\ prop_parts.params = SpecsJoined(<< <<"V","A","L","U","E","=","u","r","i">>, <<"E","N","C","O","D","I","N","G","=","b">> >>)
    /\ prop_parts.value = <<"h","t","t","p",":","/","/","a","/","b">>

\* how many of the warnings of the unfolding are the given one, and the
\* 1-based indices of the physical lines that are continuations
Warned(warning) ==
    Cardinality({ i \in DOMAIN vc_outcome.warnings : vc_outcome.warnings[i] = warning })
Continuations == { k \in DOMAIN RawLines : startswith(RawLines[k], <<SPACE_CHARACTER>>) }
EmptyContinuation == <<SPACE_CHARACTER>> \o NEWLINE_CHARACTERS

\* C24: when the unfolding returns the lines of a record without a line that
\* begins with a tab, it has warned once of a short folded line for every
\* continuation line whose previous physical line is shorter than
\* VCARD_LINE_MAX_LENGTH_RAW, once of an empty folded line for every
\* continuation line that is a space and CRLF, also after a short line, and
\* once of a long line for every line that is not a continuation and is
\* longer than VCARD_LINE_MAX_LENGTH_RAW, for no other line
C24_WarningsOfTheUnfolding ==
    (pc = "get_vcard_group" /\ vc_edit.kind \notin {"tabfold", "indent"}) =>
        /\ Warned("Short folded line") =
               Cardinality({ k \in Continuations :
                               Len(RawLines[k - 1]) < VCARD_LINE_MAX_LENGTH_RAW })
        /\ Warned("Empty folded line") =
               Cardinality({ k \in Continuations : RawLines[k] = EmptyContinuation })
        /\ Warned("Long line") =
               Cardinality({ k \in DOMAIN RawLines \ Continuations :
                               Len(RawLines[k]) > VCARD_LINE_MAX_LENGTH_RAW })

\* every value of a TYPE parameter of the line is in the vocabulary of ADR
\* and LABEL, and every other parameter is a valid text parameter
AddressParameters ==
    /\ ParameterValues(TYPE) \subseteq LABEL_TYPE_VALUES
    /\ \A i \in DOMAIN DecomposedParameters.value :
           DecomposedParameters.value[i].name # TYPE =>
               IsTextParameter(DecomposedParameters.value[i])

\* C25: an ADR line with exactly seven values whose TYPE values are all in
\* the vocabulary and whose other parameters are all valid text parameters
\* is accepted, and so is such a LABEL line with one text value; with TYPE
\* and LANGUAGE, VALUE=ptext or an X- parameter, or several of these
C25_AddressWithTextParameters ==
    (Finished("property") /\ prop_parts.colon = <<":">> /\ Decomposed /\ AddressParameters) =>
        /\ (IsProperty(<<"A","D","R">>) /\ Len(DecomposedValues.value) = 7) =>
               pc = "property returned"
        /\ (IsProperty(<<"L","A","B","E","L">>) /\ OneTextValue) =>
               pc = "property returned"

\* C26: the property returned for an accepted line has the name, the values
\* and the parameters that the parsing of the line made: every parameter
\* name with all the values written for it on the line
C26_ValidationLeavesTheProperty ==
    (pc = "property returned" /\ prop_parts.colon = <<":">> /\ Decomposed) =>
        /\ prop_outcome.value.name = Parsed.name
        /\ prop_outcome.value.values = Parsed.values
        /\ prop_outcome.value.parameters = Parsed.parameters

\* the number of lines of the file that the loop has gone through, those of
\* them that are END:VCARD with CRLF, the lines a..b of the file as one text,
\* and the lines that say END in another way
Handled ==
    IF Len(vf_calls) > 0 /\ vf_calls[Len(vf_calls)].outcome.raised
    THEN vf_index + 1 ELSE vf_index
EndLines ==
    { k \in 1..Handled : vf_contents[k] = <<"E","N","D",":","V","C","A","R","D",CR,LF>> }
LinesJoined(a, b) == Join(SubSeq(vf_contents, a, b), <<>>)
OtherEndLines ==
    { k \in 1..Handled :
        vf_contents[k] \in { LINE_END_LOWER \o NEWLINE_CHARACTERS,
                             LINE_END_MIXED \o NEWLINE_CHARACTERS,
                             <<"g","r","p",".">> \o LINE_END \o NEWLINE_CHARACTERS,
                             <<"E","N","D",":","V","C">> \o NEWLINE_CHARACTERS,
                             <<SPACE_CHARACTER,"A","R","D">> \o NEWLINE_CHARACTERS } }

\* C27: validate_file has called the validation of a record once for each
\* line gone through that is END:VCARD with CRLF, in their order, with the
\* index of that line and with the text of all lines after the END:VCARD line
\* before it up to it; as long as no record was refused, the text kept is
\* that of the lines after the last such line, so it is empty right after a
\* record; and no line that says END in another way (end:vcard, END:vcard,
\* grp.END:VCARD, a folded END line) has ended a record
C27_RecordsEndAtTheExactEndLine ==
    /\ Len(vf_calls) = Cardinality(EndLines)
    /\ \A c \in DOMAIN vf_calls :
           /\ vf_calls[c].line_index + 1 \in EndLines
           /\ Cardinality({ k \in EndLines : k <= vf_calls[c].line_index + 1 }) = c
           /\ vf_calls[c].vcard_text =
                  LinesJoined(Max({0} \cup { k \in EndLines : k <= vf_calls[c].line_index }) + 1,
                              vf_calls[c].line_index + 1)
    /\ NoRecordRefused =>
           /\ vf_vcard_text = LinesJoined(Max({0} \cup EndLines) + 1, Handled)
           /\ Handled \in EndLines => vf_vcard_text = <<>>
    /\ \A k \in OtherEndLines, c \in DOMAIN vf_calls : vf_calls[c].line_index + 1 # k

\* a record ended with end:vcard and the minimal record after it have been
\* given to the validation as one text, at the END:VCARD line of the second
C27_Witness ==
    /\ pc = "returned"
    /\ Len(vf_file.records) = 2
    /\ vf_file.records[1][Len(vf_file.records[1])] = LINE_END_LOWER
    /\ vf_file.records[2] = MinimalRecord
    /\ Len(vf_calls) = 1
    /\ vf_calls[1].line_index = 9
    /\ vf_calls[1].vcard_text =
           RecordText(vf_file.records[1]) \o RecordText(vf_file.records[2])

\* a valid record and after it a record with a folded END line: one call,
\* and the six physical lines of the second record are reported as left
C27_WitnessFolded ==
    /\ pc = "returned"
    /\ Len(vf_calls) = 1
    /\ NoRecordRefused
    /\ Cardinality(OtherEndLines) = 2
    /\ vf_result = lines_remain(6)

====
